---- MODULE Spec2Model ----
(***************************************************************************)
(* Model of rollercoaster's manager discovery (parser.ts), package-manager *)
(* flavor selection (js-manager.ts) and task resolution (manager.ts).      *)
(*                                                                         *)
(* Paths are sequences of one-character strings, so that dirname and       *)
(* startsWith work on characters exactly as in the source.  A file is the  *)
(* pair <<directory, filename>>; the file system is the set of files that  *)
(* exist.                                                                  *)
(***************************************************************************)
EXTENDS Integers, Sequences, FiniteSets, TLC

VARIABLES
    fs,           \* the files and marker directories that exist
    cwd,          \* process.cwd() of the invocation
    config,       \* configManager.get()
    managers,     \* the list parseManagers returned to executeCommand
    pc,           \* "setup" while the tree is prepared, "parsed" after discovery
    managerList,  \* Manager[] handed to the resolution functions
    fuseScore,    \* Fuse's score of every task name for the query, in tenths
    ret,          \* what the last resolution call did
    taskQuery,    \* the [task] argument of the command line, "" when absent
    workspaceInfo, \* what detectWorkspace(process.cwd()) resolves to
    cliPc,        \* where the CLI process is: "start", a screen, "executing", "exited"
    shown,        \* the screens rendered so far, in order, with their props
    browser,      \* the state of the TasksList component on screen
    proc,         \* the child process of executeCommand and its promise
    exitStatus,   \* the exit status of the CLI process, -1 while it runs
    handler,      \* the promise of the root command's action handler
    pkg,          \* the package.json files of the tree: state and content
    taskfile,     \* the Taskfile of the working directory: state and content
    listings,     \* what listTasks() of each discovered manager returned
    taskfilePath, \* the memo of one TaskManager instance
    lastCall,     \* the latest listTasks() on that instance: probes and path used
    taskList,     \* the Task[] handed to filterUniqueTasks
    configScreen, \* the state of the ConfigList component on screen
    workspaceDir, \* what detectWorkspace finds in the directory it is given
    projectsRender \* renderProjectsList: its component, callbacks and promise

discoveryVars == <<fs, cwd, config, managers, pc>>
resolveVars == <<managerList, fuseScore, ret>>
cliVars ==
    <<taskQuery, workspaceInfo, cliPc, shown, browser, proc, exitStatus, handler>>
listVars == <<pkg, taskfile, listings>>
memoVars == <<taskfilePath, lastCall>>
uniqueVars == <<taskList>>
screenVars == <<configScreen, workspaceDir, projectsRender>>
vars == <<fs, cwd, config, managers, pc, managerList, fuseScore, ret,
          taskQuery, workspaceInfo, cliPc, shown, browser, proc, exitStatus, handler,
          pkg, taskfile, listings, taskfilePath, lastCall, taskList,
          configScreen, workspaceDir, projectsRender>>

(***************************************************************************)
(* Bounds                                                                  *)
(***************************************************************************)
MaxFiles == 4
MaxManagers == 2

(***************************************************************************)
(* Paths                                                                   *)
(***************************************************************************)
Root == <<"/">>
DirA == <<"/", "a">>
DirAB == <<"/", "a", "/", "b">>
DirAb == <<"/", "a", "b">>

StartDirs == {Root, DirA, DirAB, DirAb}

\* String.prototype.startsWith
StartsWith(s, prefix) ==
    /\ Len(prefix) <= Len(s)
    /\ SubSeq(s, 1, Len(prefix)) = prefix

\* the index of the last "/" of an absolute path
LastSlash(p) == CHOOSE i \in 1..Len(p) :
    /\ p[i] = "/"
    /\ \A j \in (i + 1)..Len(p) : p[j] # "/"

\* path.dirname on a normalised absolute POSIX path
dirname(p) ==
    IF LastSlash(p) = 1 THEN Root ELSE SubSeq(p, 1, LastSlash(p) - 1)

\* path.join(dir, filename) names the file <<dir, filename>>
join(dir, filename) == <<dir, filename>>

RECURSIVE Ancestors(_)
\* a directory and every directory above it
Ancestors(d) == IF dirname(d) = d THEN {d} ELSE {d} \cup Ancestors(dirname(d))

(***************************************************************************)
(* config-file.ts                                                          *)
(***************************************************************************)
fileExists(path, files) == path \in files

RECURSIVE GitRootWalkToRoot(_, _, _)
\* findGitRoot mutant: at the filesystem root the root itself is returned
GitRootWalkToRoot(currentDir, startDir, files) ==
    IF fileExists(join(currentDir, ".git"), files) THEN currentDir
    ELSE IF dirname(currentDir) = currentDir THEN currentDir
    ELSE GitRootWalkToRoot(dirname(currentDir), startDir, files)

RECURSIVE GitRootWalk(_, _, _)
GitRootWalk(currentDir, startDir, files) ==
    IF fileExists(join(currentDir, ".git"), files) THEN currentDir
    ELSE IF dirname(currentDir) = currentDir THEN startDir
    ELSE GitRootWalk(dirname(currentDir), startDir, files)

findGitRoot(startDir, files) == GitRootWalk(startDir, startDir, files)

(***************************************************************************)
(* js-manager.ts: flavor selection in the JsManager constructor            *)
(***************************************************************************)
LockfileNames ==
    {"bun.lockb", "bun.lock", "pnpm-lock.yaml", "yarn.lock", "package-lock.json"}

JSManagerOptions == {"npm", "yarn", "pnpm", "bun"}

\* detectWorkspace with the yarn lockfile probed before the pnpm lockfile
detectWorkspaceYarnFirst(directory, defaultManager, files) ==
    IF fileExists(join(directory, "bun.lockb"), files) THEN "bun"
    ELSE IF fileExists(join(directory, "yarn.lock"), files) THEN "yarn@1"
    ELSE IF fileExists(join(directory, "pnpm-lock.yaml"), files) THEN "pnpm@9+"
    ELSE IF fileExists(join(directory, "package-lock.json"), files) THEN "npm"
    ELSE CASE defaultManager = "bun" -> "bun"
           [] defaultManager = "pnpm" -> "pnpm@9+"
           [] defaultManager = "yarn" -> "yarn@1"
           [] OTHER -> "npm"

\* the name() of the workspace detectWorkspace returns
detectWorkspace(directory, defaultManager, files) ==
    IF fileExists(join(directory, "bun.lockb"), files) THEN "bun"
    ELSE IF fileExists(join(directory, "pnpm-lock.yaml"), files) THEN "pnpm@9+"
    ELSE IF fileExists(join(directory, "yarn.lock"), files) THEN "yarn@1"
    ELSE IF fileExists(join(directory, "package-lock.json"), files) THEN "npm"
    ELSE CASE defaultManager = "bun" -> "bun"
           [] defaultManager = "pnpm" -> "pnpm@9+"
           [] defaultManager = "yarn" -> "yarn@1"
           [] OTHER -> "npm"

\* new JsManager(directory, defaultManager), seen through getTitle()
JsManager(directory, defaultManager, files) ==
    [kind |-> "JsManager",
     directory |-> directory,
     name |-> detectWorkspace(directory, defaultManager, files)]

\* new TaskManager(directory), seen through getTitle()
TaskManager(directory) ==
    [kind |-> "TaskManager", directory |-> directory, name |-> "Task"]

(***************************************************************************)
(* task-manager.ts: the names TaskManager.findTaskfile probes, in order    *)
(***************************************************************************)
taskfileNames ==
    <<"Taskfile.yml", "taskfile.yml", "Taskfile.yaml", "taskfile.yaml",
      "Taskfile.dist.yml", "Taskfile.dist.yaml">>

\* the path findTaskfile resolves in a directory, or "null"
findTaskfile(directory, files) ==
    IF \E i \in 1..Len(taskfileNames) :
           fileExists(join(directory, taskfileNames[i]), files)
    THEN join(directory,
              taskfileNames[CHOOSE i \in 1..Len(taskfileNames) :
                  /\ fileExists(join(directory, taskfileNames[i]), files)
                  /\ \A j \in 1..(i - 1) :
                         ~fileExists(join(directory, taskfileNames[j]), files)])
    ELSE "null"

(***************************************************************************)
(* parser.ts: parseManagers                                                *)
(***************************************************************************)
taskfilePatterns ==
    <<"Taskfile.yml", "taskfile.yml", "Taskfile.yaml", "taskfile.yaml">>

\* the managers one iteration of the scan appends for currentDir
ManagersAt(currentDir, defaultJSManager, files) ==
    (IF fileExists(join(currentDir, "package.json"), files)
     THEN <<JsManager(currentDir, defaultJSManager, files)>>
     ELSE <<>>)
    \o
    (IF \E i \in 1..Len(taskfilePatterns) :
            fileExists(join(currentDir, taskfilePatterns[i]), files)
     THEN <<TaskManager(currentDir)>>
     ELSE <<>>)

RECURSIVE ScanUpFarthestFirst(_, _, _, _)
\* the scan with each directory's managers put in front of the list
ScanUpFarthestFirst(currentDir, gitRoot, defaultJSManager, files) ==
    IF ~(StartsWith(currentDir, gitRoot) \/ currentDir = gitRoot) THEN <<>>
    ELSE IF dirname(currentDir) = currentDir
         THEN ManagersAt(currentDir, defaultJSManager, files)
         ELSE ScanUpFarthestFirst(dirname(currentDir), gitRoot,
                                  defaultJSManager, files)
              \o ManagersAt(currentDir, defaultJSManager, files)

RECURSIVE ScanUpPastRoot(_, _, _, _)
\* the scan without its stop at the repository root
ScanUpPastRoot(currentDir, gitRoot, defaultJSManager, files) ==
    IF dirname(currentDir) = currentDir
    THEN ManagersAt(currentDir, defaultJSManager, files)
    ELSE ManagersAt(currentDir, defaultJSManager, files)
         \o ScanUpPastRoot(dirname(currentDir), gitRoot, defaultJSManager, files)

RECURSIVE ScanUp(_, _, _, _)
\* the while loop of parseManagers, from currentDir upward
ScanUp(currentDir, gitRoot, defaultJSManager, files) ==
    IF ~(StartsWith(currentDir, gitRoot) \/ currentDir = gitRoot) THEN <<>>
    ELSE IF dirname(currentDir) = currentDir
         THEN ManagersAt(currentDir, defaultJSManager, files)
         ELSE ManagersAt(currentDir, defaultJSManager, files)
              \o ScanUp(dirname(currentDir), gitRoot, defaultJSManager, files)

parseManagers(dir, defaultJSManager, files) ==
    ScanUp(dir, findGitRoot(dir, files), defaultJSManager, files)

(***************************************************************************)
(* Discovery state machine: the tree is prepared, then root.ts             *)
(* executeCommand runs discovery on it.                                    *)
(***************************************************************************)
DefaultConfig ==
    [defaultJSManager |-> "npm",
     enableDefaultJSManager |-> FALSE,
     autoSelectClosest |-> TRUE]

NoResolve ==
    /\ managerList = <<>>
    /\ fuseScore = <<>>
    /\ ret = [op |-> "none"]

NoProcess == [spawns |-> 0, launchedFrom |-> "none", emitted |-> <<>>,
              promise |-> "pending"]

NoFile == [state |-> "missing", value |-> [type |-> "none"]]

NoListing ==
    /\ pkg = NoFile
    /\ taskfile = NoFile
    /\ listings = <<>>

\* this.taskfilePath = null: no directory, no name
NullPath == <<<<>>, "">>

NoMemo ==
    /\ taskfilePath = NullPath
    /\ lastCall = [calls |-> 0, probed |-> <<>>, used |-> NullPath]

NoUnique == taskList = <<>>

NoScreens ==
    /\ configScreen = [isNull |-> TRUE]
    /\ workspaceDir = [isNull |-> TRUE]
    /\ projectsRender = [isNull |-> TRUE]

NoCli ==
    /\ taskQuery = <<>>
    /\ workspaceInfo = [isWorkspace |-> FALSE, projects |-> <<>>]
    /\ cliPc = "start"
    /\ shown = <<>>
    /\ browser = [isNull |-> TRUE]
    /\ proc = NoProcess
    /\ exitStatus = -1
    /\ handler = "pending"

InitDiscovery ==
    /\ fs = {}
    /\ cwd \in StartDirs
    /\ config = DefaultConfig
    /\ managers = <<>>
    /\ pc = "setup"
    /\ NoResolve
    /\ NoCli
    /\ NoListing
    /\ NoMemo
    /\ NoUnique
    /\ NoScreens

InitFlavor ==
    /\ fs = {}
    /\ cwd \in StartDirs
    /\ config \in [defaultJSManager : JSManagerOptions,
                   enableDefaultJSManager : BOOLEAN,
                   autoSelectClosest : {TRUE}]
    /\ managers = <<>>
    /\ pc = "setup"
    /\ NoResolve
    /\ NoCli
    /\ NoListing
    /\ NoMemo
    /\ NoUnique
    /\ NoScreens

\* a file may be created at or above the working directory while the tree
\* is prepared
CanCreate(dir, filename) ==
    /\ pc = "setup"
    /\ Cardinality(fs) < MaxFiles
    /\ dir \in Ancestors(cwd)
    /\ join(dir, filename) \notin fs

\* mkdir(join(dir, ".git"))
MkGit ==
    \E dir \in StartDirs :
        /\ CanCreate(dir, ".git")
        /\ fs' = fs \cup {join(dir, ".git")}
        /\ UNCHANGED <<cwd, config, managers, pc>>
        /\ UNCHANGED <<resolveVars, cliVars, listVars, memoVars, uniqueVars,
                       screenVars>>

\* writeFile(join(dir, "package.json"), ...)
WriteManifest ==
    \E dir \in StartDirs :
        /\ CanCreate(dir, "package.json")
        /\ fs' = fs \cup {join(dir, "package.json")}
        /\ UNCHANGED <<cwd, config, managers, pc>>
        /\ UNCHANGED <<resolveVars, cliVars, listVars, memoVars, uniqueVars,
                       screenVars>>

\* writeFile of a Taskfile under any of the names TaskManager accepts
WriteTaskfile ==
    \E dir \in StartDirs : \E i \in 1..Len(taskfileNames) :
        /\ CanCreate(dir, taskfileNames[i])
        /\ fs' = fs \cup {join(dir, taskfileNames[i])}
        /\ UNCHANGED <<cwd, config, managers, pc>>
        /\ UNCHANGED <<resolveVars, cliVars, listVars, memoVars, uniqueVars,
                       screenVars>>

\* writeFile of a lockfile
WriteLockfile ==
    \E dir \in StartDirs : \E n \in LockfileNames :
        /\ CanCreate(dir, n)
        /\ fs' = fs \cup {join(dir, n)}
        /\ UNCHANGED <<cwd, config, managers, pc>>
        /\ UNCHANGED <<resolveVars, cliVars, listVars, memoVars, uniqueVars,
                       screenVars>>

\* root.ts executeCommand, up to the managers it obtains
ExecuteCommand ==
    /\ pc = "setup"
    /\ managers' = parseManagers(cwd, config.defaultJSManager, fs)
    /\ pc' = "parsed"
    /\ UNCHANGED <<fs, cwd, config>>
    /\ UNCHANGED <<resolveVars, cliVars, listVars, memoVars, uniqueVars,
                   screenVars>>

NextDiscovery == MkGit \/ WriteManifest \/ WriteTaskfile \/ ExecuteCommand

SpecDiscovery == InitDiscovery /\ [][NextDiscovery]_vars

NextFlavor == MkGit \/ WriteManifest \/ WriteLockfile \/ ExecuteCommand

SpecFlavor == InitFlavor /\ [][NextFlavor]_vars

(***************************************************************************)
(* task.ts: sortTasks.  Task names are sequences of characters; the        *)
(* comparison is String.prototype.localeCompare: letters first, case only  *)
(* to order names that differ in nothing else (lower case first).          *)
(***************************************************************************)
\* the letter of a character, whatever its case
Letter(ch) ==
    CASE ch \in {"a", "A"} -> 1 [] ch \in {"b", "B"} -> 2
      [] ch \in {"d", "D"} -> 4 [] ch \in {"i", "I"} -> 9
      [] ch \in {"l", "L"} -> 12 [] ch \in {"u", "U"} -> 21

IsUpper(ch) == ch \in {"A", "B", "D", "I", "L", "U"}

\* the characters in UTF-16 code unit order: upper case before lower case
CodeUnit(ch) == CASE ch = "A" -> 1 [] ch = "B" -> 2 [] ch = "a" -> 3 [] ch = "b" -> 4

RECURSIVE LetterCompare(_, _)
\* -1, 0 or 1: the names compared letter by letter, case ignored
LetterCompare(x, y) ==
    IF x = <<>> /\ y = <<>> THEN 0
    ELSE IF x = <<>> THEN -1
    ELSE IF y = <<>> THEN 1
    ELSE IF Letter(Head(x)) < Letter(Head(y)) THEN -1
    ELSE IF Letter(Head(x)) > Letter(Head(y)) THEN 1
    ELSE LetterCompare(Tail(x), Tail(y))

RECURSIVE CaseCompare(_, _)
\* -1, 0 or 1 for names of equal letters: lower case first at the first difference
CaseCompare(x, y) ==
    IF x = <<>> \/ y = <<>> THEN 0
    ELSE IF IsUpper(Head(x)) = IsUpper(Head(y)) THEN CaseCompare(Tail(x), Tail(y))
    ELSE IF IsUpper(Head(y)) THEN -1
    ELSE 1

RECURSIVE CodeUnitCompare(_, _)
\* the comparison of the < operator on strings
CodeUnitCompare(x, y) ==
    IF x = <<>> /\ y = <<>> THEN 0
    ELSE IF x = <<>> THEN -1
    ELSE IF y = <<>> THEN 1
    ELSE IF CodeUnit(Head(x)) < CodeUnit(Head(y)) THEN -1
    ELSE IF CodeUnit(Head(x)) > CodeUnit(Head(y)) THEN 1
    ELSE CodeUnitCompare(Tail(x), Tail(y))

\* a.localeCompare(b)
localeCompare(x, y) ==
    IF LetterCompare(x, y) # 0 THEN LetterCompare(x, y) ELSE CaseCompare(x, y)

\* the comparator of sortTasks
CompareTasks(a, b) == localeCompare(a.name, b.name)

\* the comparator of sortTasks written with < on the names
CompareTasksByCodeUnit(a, b) == CodeUnitCompare(a.name, b.name)

RECURSIVE InsertTask(_, _)
\* task put behind every element of a sorted list that does not follow it
InsertTask(task, sorted) ==
    IF sorted = <<>> THEN <<task>>
    ELSE IF CompareTasks(sorted[Len(sorted)], task) <= 0 THEN Append(sorted, task)
    ELSE Append(InsertTask(task, SubSeq(sorted, 1, Len(sorted) - 1)),
                sorted[Len(sorted)])

RECURSIVE InsertTaskByCodeUnit(_, _)
InsertTaskByCodeUnit(task, sorted) ==
    IF sorted = <<>> THEN <<task>>
    ELSE IF CompareTasksByCodeUnit(sorted[Len(sorted)], task) <= 0
         THEN Append(sorted, task)
    ELSE Append(InsertTaskByCodeUnit(task, SubSeq(sorted, 1, Len(sorted) - 1)),
                sorted[Len(sorted)])

RECURSIVE sortTasksByCodeUnit(_)
\* sortTasks with the names compared by code unit
sortTasksByCodeUnit(tasks) ==
    IF tasks = <<>> THEN <<>>
    ELSE InsertTaskByCodeUnit(tasks[Len(tasks)],
             sortTasksByCodeUnit(SubSeq(tasks, 1, Len(tasks) - 1)))

RECURSIVE sortTasks(_)
\* [...tasks].sort(...): a stable sort of a copy
sortTasks(tasks) ==
    IF tasks = <<>> THEN <<>>
    ELSE InsertTask(tasks[Len(tasks)], sortTasks(SubSeq(tasks, 1, Len(tasks) - 1)))

(***************************************************************************)
(* manager.ts: the resolution functions over a Manager list.  A Manager is *)
(* known by its place in the list.  Every call yields [threw, value,       *)
(* consulted]: whether it rejected, what it returned, and the managers     *)
(* whose listTasks it called, in call order.                               *)
(***************************************************************************)
Threshold == 4

TaskNames == {<<"a">>, <<"b">>, <<"B">>}

ScoreValues == {0, 4, 7}

Task(name) == [name |-> name]

TaskLists ==
    {<<>>} \cup {<<Task(x)>> : x \in TaskNames}
           \cup {<<Task(x), Task(y)>> : x \in TaskNames, y \in TaskNames}

\* the Manager implementations the functions are called with: listTasks
\* resolves to the tasks or rejects
MockManagers ==
    {[tasks |-> t, fails |-> FALSE] : t \in TaskLists}
        \cup {[tasks |-> <<>>, fails |-> TRUE]}

Null == [isNull |-> TRUE]

IsNull(v) == DOMAIN v = {"isNull"}

ManagerTask(task, manager) == [task |-> task, manager |-> manager]

\* await manager.listTasks()
listTasks(manager) ==
    IF manager.fails THEN [threw |-> TRUE, value |-> <<>>]
    ELSE [threw |-> FALSE, value |-> manager.tasks]

RECURSIVE RankByScore(_, _)
\* Fuse's result order: best score first, equal scores in index order
RankByScore(names, indexes) ==
    IF indexes = {} THEN <<>>
    ELSE LET best == CHOOSE i \in indexes : \A j \in indexes :
                         \/ fuseScore[names[i]] < fuseScore[names[j]]
                         \/ fuseScore[names[i]] = fuseScore[names[j]] /\ i <= j
         IN <<best>> \o RankByScore(names, indexes \ {best})

RECURSIVE RankByIndex(_, _)
\* the matches left in index order
RankByIndex(names, indexes) ==
    IF indexes = {} THEN <<>>
    ELSE LET first == CHOOSE i \in indexes : \A j \in indexes : i <= j
         IN <<first>> \o RankByIndex(names, indexes \ {first})

\* new Fuse(items, {keys, threshold: 0.4}).search(query), as the indexes of
\* the matching items in result order; names[i] is the searched key of item i
FuseSearch(names) ==
    RankByScore(names,
        {i \in 1..Len(names) : fuseScore[names[i]] <= Threshold})

NamesOf(tasks) == [k \in 1..Len(tasks) |-> tasks[k].name]

\* findClosestTask(list[i], query)
findClosestTask(list, i) ==
    LET listed == listTasks(list[i])
        results == FuseSearch(NamesOf(listed.value))
    IN IF listed.threw THEN [threw |-> FALSE, value |-> Null]
       ELSE IF Len(results) > 0
            THEN [threw |-> FALSE,
                  value |-> ManagerTask(listed.value[results[1]], i)]
       ELSE [threw |-> FALSE, value |-> Null]

RECURSIVE ClosestFrom(_, _)
\* the for loop of findClosestTaskFromList from manager i on
ClosestFrom(list, i) ==
    IF i > Len(list)
    THEN [threw |-> FALSE, value |-> Null, consulted |-> <<>>]
    ELSE LET task == findClosestTask(list, i)
             rest == ClosestFrom(list, i + 1)
         IN IF task.threw
            THEN [threw |-> TRUE, value |-> Null, consulted |-> <<i>>]
            ELSE IF ~IsNull(task.value)
            THEN [threw |-> FALSE, value |-> task.value, consulted |-> <<i>>]
            ELSE [rest EXCEPT !.consulted = <<i>> \o @]

RECURSIVE BestScoreFrom(_, _)
\* the loop keeping the best-scoring match of all managers
BestScoreFrom(list, i) ==
    IF i > Len(list)
    THEN [threw |-> FALSE, value |-> Null, consulted |-> <<>>]
    ELSE LET task == findClosestTask(list, i)
             rest == BestScoreFrom(list, i + 1)
             better ==
                 /\ ~IsNull(task.value)
                 /\ \/ IsNull(rest.value)
                    \/ fuseScore[task.value.task.name]
                           <= fuseScore[rest.value.task.name]
         IN [threw |-> FALSE,
             value |-> IF better THEN task.value ELSE rest.value,
             consulted |-> <<i>> \o rest.consulted]

\* findClosestTaskFromList returning the best match over all managers
findClosestTaskFromListByScore(list) == BestScoreFrom(list, 1)

findClosestTaskFromList(list) == ClosestFrom(list, 1)

RECURSIVE AllTasksFromNoCatch(_, _)
\* the loop of getAllManagerTasks without its try/catch
AllTasksFromNoCatch(list, i) ==
    IF i > Len(list)
    THEN [threw |-> FALSE, value |-> <<>>, consulted |-> <<>>]
    ELSE LET listed == listTasks(list[i])
             sorted == sortTasks(listed.value)
             rest == AllTasksFromNoCatch(list, i + 1)
         IN IF listed.threw
            THEN [threw |-> TRUE, value |-> <<>>, consulted |-> <<i>>]
            ELSE [threw |-> rest.threw,
                  value |-> [k \in 1..Len(sorted) |-> ManagerTask(sorted[k], i)]
                                \o rest.value,
                  consulted |-> <<i>> \o rest.consulted]

RECURSIVE AllTasksFrom(_, _)
\* the for loop of getAllManagerTasks from manager i on
AllTasksFrom(list, i) ==
    IF i > Len(list)
    THEN [threw |-> FALSE, value |-> <<>>, consulted |-> <<>>]
    ELSE LET listed == listTasks(list[i])
             sorted == sortTasks(listed.value)
             rest == AllTasksFrom(list, i + 1)
         IN IF listed.threw
            THEN [rest EXCEPT !.consulted = <<i>> \o @]
            ELSE [threw |-> rest.threw,
                  value |-> [k \in 1..Len(sorted) |-> ManagerTask(sorted[k], i)]
                                \o rest.value,
                  consulted |-> <<i>> \o rest.consulted]

getAllManagerTasks(list) == AllTasksFrom(list, 1)

\* findAllClosestTasks returning the matches in list-all order
findAllClosestTasksInPoolOrder(list) ==
    LET all == getAllManagerTasks(list)
        names == [k \in 1..Len(all.value) |-> all.value[k].task.name]
        results == RankByIndex(names,
            {i \in 1..Len(names) : fuseScore[names[i]] <= Threshold})
    IN IF all.threw THEN [all EXCEPT !.value = <<>>]
       ELSE [all EXCEPT !.value = [k \in 1..Len(results) |-> all.value[results[k]]]]

findAllClosestTasks(list) ==
    LET all == getAllManagerTasks(list)
        names == [k \in 1..Len(all.value) |-> all.value[k].task.name]
        results == FuseSearch(names)
    IN IF all.threw THEN [all EXCEPT !.value = <<>>]
       ELSE [all EXCEPT !.value = [k \in 1..Len(results) |-> all.value[results[k]]]]

(***************************************************************************)
(* Resolution state machine: the functions are called on a Manager list    *)
(***************************************************************************)
InitResolve ==
    /\ managerList \in UNION {[1..n -> MockManagers] : n \in 0..MaxManagers}
    /\ fuseScore \in [TaskNames -> ScoreValues]
    /\ ret = [op |-> "none"]
    /\ fs = {}
    /\ cwd = Root
    /\ config = DefaultConfig
    /\ managers = <<>>
    /\ pc = "setup"
    /\ NoCli
    /\ NoListing
    /\ NoMemo
    /\ NoUnique
    /\ NoScreens

Returned(op, result) ==
    [op |-> op, threw |-> result.threw, value |-> result.value,
     consulted |-> result.consulted]

CallGetAllManagerTasks ==
    /\ ret' = Returned("getAllManagerTasks", getAllManagerTasks(managerList))
    /\ UNCHANGED <<managerList, fuseScore>>
    /\ UNCHANGED <<discoveryVars, cliVars, listVars, memoVars, uniqueVars,
                   screenVars>>

CallFindAllClosestTasks ==
    /\ ret' = Returned("findAllClosestTasks", findAllClosestTasks(managerList))
    /\ UNCHANGED <<managerList, fuseScore>>
    /\ UNCHANGED <<discoveryVars, cliVars, listVars, memoVars, uniqueVars,
                   screenVars>>

CallFindClosestTaskFromList ==
    /\ ret' = Returned("findClosestTaskFromList",
                       findClosestTaskFromList(managerList))
    /\ UNCHANGED <<managerList, fuseScore>>
    /\ UNCHANGED <<discoveryVars, cliVars, listVars, memoVars, uniqueVars,
                   screenVars>>

NextResolve ==
    \/ CallGetAllManagerTasks
    \/ CallFindAllClosestTasks
    \/ CallFindClosestTaskFromList

SpecResolve == InitResolve /\ [][NextResolve]_vars

(***************************************************************************)
(* Properties of resolution                                                *)
(***************************************************************************)
Score(task) == fuseScore[task.name]

Matches(task) == Score(task) <= Threshold

TasksOf(i) == managerList[i].tasks

\* the managers that list at least one task matching the query
MatchingManagers ==
    {i \in 1..Len(managerList) :
        /\ ~managerList[i].fails
        /\ \E k \in 1..Len(TasksOf(i)) : Matches(TasksOf(i)[k])}

FirstMatching == CHOOSE i \in MatchingManagers : \A j \in MatchingManagers : i <= j

\* how often x occurs in the sequence s
Count(s, x) == Cardinality({k \in 1..Len(s) : s[k] = x})

\* C1: findClosestTaskFromList returns the best match of the first manager in
\* list order that has a match, even when a later manager holds a strictly
\* better one, and null only when no manager has a match.
C1_FirstManagerWins ==
    ret.op = "findClosestTaskFromList" =>
        /\ ~ret.threw
        /\ IsNull(ret.value) <=> MatchingManagers = {}
        /\ ~IsNull(ret.value) =>
               /\ ret.value.manager = FirstMatching
               /\ Count(TasksOf(FirstMatching), ret.value.task) > 0
               /\ Matches(ret.value.task)
               /\ \A k \in 1..Len(TasksOf(FirstMatching)) :
                      Score(ret.value.task) <= Score(TasksOf(FirstMatching)[k])

\* C1 happens: the first manager's match is returned although the second
\* manager holds a strictly better one
C1_Witness ==
    /\ ret.op = "findClosestTaskFromList"
    /\ ~IsNull(ret.value)
    /\ ret.value.manager = 1
    /\ Len(managerList) = 2
    /\ \E k \in 1..Len(TasksOf(2)) : Score(TasksOf(2)[k]) < Score(ret.value.task)

\* the list-all pool of the current managers
Pool == getAllManagerTasks(managerList).value

\* C2: findAllClosestTasks returns exactly the tasks of the merged list-all
\* pool whose score is within the threshold, best score first across the whole
\* pool; the manager a task came from only orders equal scores.
C2_RankedAcrossPool ==
    ret.op = "findAllClosestTasks" =>
        /\ \A k \in 1..Len(ret.value) :
               Count(ret.value, ret.value[k]) = Count(Pool, ret.value[k])
        /\ \A k \in 1..Len(Pool) :
               Count(ret.value, Pool[k]) = IF Matches(Pool[k].task)
                                           THEN Count(Pool, Pool[k]) ELSE 0
        /\ \A i \in 1..Len(ret.value) : \A j \in 1..Len(ret.value) :
               i < j =>
                   \/ Score(ret.value[i].task) < Score(ret.value[j].task)
                   \/ /\ Score(ret.value[i].task) = Score(ret.value[j].task)
                      /\ ret.value[i].manager <= ret.value[j].manager

\* C2 happens: a task of the second manager is ranked before a task of the
\* first manager because it scores better
C2_Witness ==
    /\ ret.op = "findAllClosestTasks"
    /\ Len(ret.value) >= 2
    /\ ret.value[1].manager = 2
    /\ ret.value[2].manager = 1

\* the names compared without regard to case
FoldedLeq(x, y) == LetterCompare(x, y) <= 0

\* the entries of s that belong to manager i, in order
RECURSIVE BlockOf(_, _)
BlockOf(s, i) ==
    IF s = <<>> THEN <<>>
    ELSE IF Head(s).manager = i THEN <<Head(s).task>> \o BlockOf(Tail(s), i)
    ELSE BlockOf(Tail(s), i)

\* C3: getAllManagerTasks returns the concatenation, in manager order, of each
\* manager's tasks sorted case-insensitively by name; nothing is lost or
\* duplicated and each entry is paired with the manager that listed it.
C3_ConcatenationOfSortedBlocks ==
    ret.op = "getAllManagerTasks" =>
        /\ \A i \in 1..Len(ret.value) : \A j \in 1..Len(ret.value) :
               i < j =>
                   /\ ret.value[i].manager <= ret.value[j].manager
                   /\ ret.value[i].manager = ret.value[j].manager =>
                          FoldedLeq(ret.value[i].task.name, ret.value[j].task.name)
        /\ \A k \in 1..Len(ret.value) : ret.value[k].manager \in 1..Len(managerList)
        /\ \A m \in 1..Len(managerList) : \A n \in TaskNames :
               Count(BlockOf(ret.value, m), Task(n)) =
                   IF managerList[m].fails THEN 0 ELSE Count(TasksOf(m), Task(n))

\* C3 happens: a manager's unsorted tasks come out sorted, upper case after a
\* lower-case name, and the next manager's block starts with an earlier name
C3_Witness ==
    /\ ret.op = "getAllManagerTasks"
    /\ Len(managerList) = 2
    /\ TasksOf(1) = <<Task(<<"B">>), Task(<<"a">>)>>
    /\ Len(ret.value) = 3
    /\ ret.value[2].task.name = <<"B">>
    /\ ret.value[3].task.name = <<"a">>

RECURSIVE UpTo(_)
\* <<1, ..., n>>
UpTo(n) == IF n = 0 THEN <<>> ELSE Append(UpTo(n - 1), n)

\* C4: a manager whose listTasks throws contributes nothing, the operation
\* does not throw, and every manager after the failing one is still consulted
\* and contributes its tasks or its match.
C4_FailureIsolation ==
    /\ ret.op # "none" => ~ret.threw
    /\ ret.op \in {"getAllManagerTasks", "findAllClosestTasks"} =>
           /\ ret.consulted = UpTo(Len(managerList))
           /\ \A k \in 1..Len(ret.value) : ~managerList[ret.value[k].manager].fails
           /\ \A m \in 1..Len(managerList) :
                  ~managerList[m].fails =>
                      Len(BlockOf(ret.value, m)) =
                          Cardinality({k \in 1..Len(TasksOf(m)) :
                              \/ ret.op = "getAllManagerTasks"
                              \/ Matches(TasksOf(m)[k])})
    /\ ret.op = "findClosestTaskFromList" =>
           /\ ret.consulted =
                  UpTo(IF MatchingManagers = {} THEN Len(managerList)
                       ELSE FirstMatching)
           /\ IsNull(ret.value) <=> MatchingManagers = {}
           /\ ~IsNull(ret.value) => ret.value.manager = FirstMatching

\* C4 happens: the first manager's listTasks throws and the second manager's
\* tasks are returned
C4_Witness ==
    /\ ret.op = "getAllManagerTasks"
    /\ Len(managerList) = 2
    /\ managerList[1].fails
    /\ Len(ret.value) > 0
    /\ ret.consulted = <<1, 2>>

(***************************************************************************)
(* Properties of discovery                                                 *)
(***************************************************************************)
HasGit(d) == <<d, ".git">> \in fs

\* the repository root of the working directory, stated without the walk:
\* the deepest directory at or above cwd that holds .git, cwd if there is none
RepoRoot ==
    IF \E d \in Ancestors(cwd) : HasGit(d)
    THEN CHOOSE d \in Ancestors(cwd) :
             /\ HasGit(d)
             /\ \A e \in Ancestors(cwd) : HasGit(e) => Len(e) <= Len(d)
    ELSE cwd

\* the directories from the working directory up to the repository root
Visited == {d \in Ancestors(cwd) : RepoRoot \in Ancestors(d)}

StrictlyAbove(d) == Ancestors(d) \ {d}

JsIndexes == {i \in 1..Len(managers) : managers[i].kind = "JsManager"}

TaskIndexes == {i \in 1..Len(managers) : managers[i].kind = "TaskManager"}

\* C5: every Manager parseManagers returns is bound to the start directory,
\* the repository root, or a directory between them; nothing found in a
\* strict ancestor of the repository root is discovered.
C5_WithinStartAndRoot ==
    pc = "parsed" =>
        \A i \in 1..Len(managers) :
            /\ managers[i].directory \in Ancestors(cwd)
            /\ RepoRoot \in Ancestors(managers[i].directory)
            /\ managers[i].directory \notin StrictlyAbove(RepoRoot)

\* C5 happens: a manifest lies above the repository root, the start directory
\* is below the root, and discovery returned a manager
C5_Witness ==
    /\ pc = "parsed"
    /\ RepoRoot # cwd
    /\ \E d \in StrictlyAbove(RepoRoot) : <<d, "package.json">> \in fs
    /\ Len(managers) > 0

\* C6: the returned list is nearest-directory-first, and a directory that
\* yields both kinds has its JsManager immediately before its TaskManager.
C6_NearestFirst ==
    pc = "parsed" =>
        /\ \A i \in 1..Len(managers) : \A j \in 1..Len(managers) :
               i < j => managers[j].directory \in Ancestors(managers[i].directory)
        /\ \A i \in JsIndexes : \A j \in TaskIndexes :
               managers[i].directory = managers[j].directory => j = i + 1

\* C6 happens: one directory yields both kinds and a farther one a third manager
C6_Witness ==
    /\ pc = "parsed"
    /\ Len(managers) = 3
    /\ managers[1].kind = "JsManager"
    /\ managers[2].kind = "TaskManager"
    /\ managers[1].directory = managers[2].directory
    /\ managers[3].directory # managers[1].directory

\* C7: for every directory visited, exactly one TaskManager is appended if at
\* least one of the six accepted Taskfile names exists there, none otherwise.
C7_TaskManagerIffTaskfile ==
    pc = "parsed" =>
        \A d \in Visited :
            Cardinality({i \in TaskIndexes : managers[i].directory = d})
                = IF findTaskfile(d, fs) # "null" THEN 1 ELSE 0

(***************************************************************************)
(* Properties of flavor selection                                          *)
(***************************************************************************)
Has(d, filename) == <<d, filename>> \in fs

HasBunLockfile(d) == Has(d, "bun.lockb") \/ Has(d, "bun.lock")

NoLockfile(d) == \A n \in LockfileNames : ~Has(d, n)

C9_BunTextLockfile ==
    pc = "parsed" =>
        \A i \in JsIndexes :
            Has(managers[i].directory, "bun.lock") => managers[i].name = "bun"

FlavorName(option) ==
    CASE option = "bun" -> "bun"
      [] option = "pnpm" -> "pnpm@9+"
      [] option = "yarn" -> "yarn@1"
      [] OTHER -> "npm"

\* C10: with no lockfile in the manager's directory the flavor is the
\* configured defaultJSManager only if enableDefaultJSManager is true, and
\* plain npm otherwise.
C10_DefaultOnlyWhenEnabled ==
    pc = "parsed" =>
        \A i \in JsIndexes :
            NoLockfile(managers[i].directory) =>
                managers[i].name =
                    IF config.enableDefaultJSManager
                    THEN FlavorName(config.defaultJSManager)
                    ELSE "npm"

(***************************************************************************)
(* TasksList.tsx: the task browser.  The component's state is the record   *)
(* of its useState cells next to its props; a key press is one run of the  *)
(* useInput handler followed by the effect that clamps the selection.      *)
(***************************************************************************)
ITEMS_PER_PAGE == 10

MaxFilter == 3

Min(a, b) == IF a < b THEN a ELSE b

\* String.prototype.toLowerCase on one character
LowerCh(ch) ==
    CASE ch = "A" -> "a" [] ch = "B" -> "b" [] ch = "D" -> "d"
      [] ch = "I" -> "i" [] ch = "L" -> "l" [] ch = "U" -> "u"
      [] OTHER -> ch

toLowerCase(s) == [k \in 1..Len(s) |-> LowerCh(s[k])]

\* String.prototype.includes: sub occurs in s as a run of characters
includes(s, sub) ==
    \E k \in 0..(Len(s) - Len(sub)) : SubSeq(s, k + 1, k + Len(sub)) = sub

RECURSIVE SelectSeqBy(_, _)
\* Array.prototype.filter with the browser's predicate
SelectSeqBy(tasks, filter) ==
    IF tasks = <<>> THEN <<>>
    ELSE LET rest == SelectSeqBy(Tail(tasks), filter)
         IN IF includes(toLowerCase(Head(tasks).task.name), toLowerCase(filter))
            THEN <<Head(tasks)>> \o rest
            ELSE rest

filteredTasks(b) ==
    IF b.filter # <<>> THEN SelectSeqBy(b.tasks, b.filter) ELSE b.tasks

\* Math.ceil(filteredTasks.length / ITEMS_PER_PAGE)
totalPages(b) == (Len(filteredTasks(b)) + ITEMS_PER_PAGE - 1) \div ITEMS_PER_PAGE

startIndex(b) == b.currentPage * ITEMS_PER_PAGE

endIndex(b) == Min(startIndex(b) + ITEMS_PER_PAGE, Len(filteredTasks(b)))

\* Array.prototype.slice: a negative index counts from the end
slice(s, start, end) ==
    LET from == IF start < 0 THEN Len(s) - Min(-start, Len(s))
                ELSE Min(start, Len(s))
        to == IF end < 0 THEN Len(s) - Min(-end, Len(s)) ELSE Min(end, Len(s))
    IN IF from >= to THEN <<>> ELSE SubSeq(s, from + 1, to)

\* filteredTasks.slice(startIndex, endIndex)
visibleTasks(b) == slice(filteredTasks(b), startIndex(b), endIndex(b))

\* the component as first rendered with its props
TasksList(tasks, initialFilter) ==
    [tasks |-> tasks, initialFilter |-> initialFilter,
     selectedIndex |-> 0, filter |-> initialFilter, isFiltering |-> TRUE,
     showHelp |-> FALSE, currentPage |-> 0]

\* the effect on [selectedIndex, visibleTasks.length]
ClampSelection(b) ==
    IF b.selectedIndex >= Len(visibleTasks(b)) /\ Len(visibleTasks(b)) > 0
    THEN [b EXCEPT !.selectedIndex = Len(visibleTasks(b)) - 1]
    ELSE b

SpecialKeys == {"return", "escape", "backspace", "upArrow", "downArrow",
                "leftArrow", "rightArrow"}

\* the keys the user presses in the model; what is not a special key is the
\* typed character
Keys == {"return", "escape", "backspace", "upArrow", "downArrow",
         "?", "/", "u"}

\* the characters the user types into the filter
TypedKeys == {"u"}

Handled(b, effect, selected) ==
    [state |-> ClampSelection(b), effect |-> effect, selected |-> selected]

\* visibleTasks[selectedIndex] handed to executeSingleTask after exit()
ExecuteSelected(b, otherwise) ==
    IF b.selectedIndex >= 0 /\ b.selectedIndex < Len(visibleTasks(b))
    THEN Handled(b, "execute", visibleTasks(b)[b.selectedIndex + 1])
    ELSE Handled(otherwise, "none", Null)

MoveUp(b) ==
    IF b.selectedIndex > 0
    THEN [b EXCEPT !.selectedIndex = @ - 1]
    ELSE IF b.currentPage > 0
    THEN [b EXCEPT !.currentPage = @ - 1, !.selectedIndex = ITEMS_PER_PAGE - 1]
    ELSE b

MoveDown(b) ==
    IF b.selectedIndex < Len(visibleTasks(b)) - 1
    THEN [b EXCEPT !.selectedIndex = @ + 1]
    ELSE IF b.currentPage < totalPages(b) - 1
    THEN [b EXCEPT !.currentPage = @ + 1, !.selectedIndex = 0]
    ELSE b

\* the useInput handler; viewMode only changes the layout and is left out
useInput(b, key) ==
    IF key = "?" THEN Handled([b EXCEPT !.showHelp = ~@], "none", Null)
    ELSE IF b.showHelp THEN Handled([b EXCEPT !.showHelp = FALSE], "none", Null)
    ELSE IF b.isFiltering THEN
        CASE key = "escape" ->
                 Handled([b EXCEPT !.isFiltering = FALSE, !.filter = <<>>],
                         "none", Null)
          [] key = "return" ->
                 ExecuteSelected(b, [b EXCEPT !.isFiltering = FALSE])
          [] key = "upArrow" -> Handled(MoveUp(b), "none", Null)
          [] key = "downArrow" -> Handled(MoveDown(b), "none", Null)
          [] key = "backspace" ->
                 Handled([b EXCEPT !.filter =
                              SubSeq(@, 1, IF Len(@) = 0 THEN 0 ELSE Len(@) - 1)],
                         "none", Null)
          [] key \notin SpecialKeys ->
                 Handled([b EXCEPT !.filter = Append(@, key)], "none", Null)
          [] OTHER -> Handled(b, "none", Null)
    ELSE
        CASE key = "escape" \/ key = "q" -> Handled(b, "exit", Null)
          [] key = "upArrow" \/ key = "k" -> Handled(MoveUp(b), "none", Null)
          [] key = "downArrow" \/ key = "j" -> Handled(MoveDown(b), "none", Null)
          [] key = "leftArrow" \/ key = "h" ->
                 Handled(IF b.currentPage > 0
                         THEN [b EXCEPT !.currentPage = @ - 1, !.selectedIndex = 0]
                         ELSE b, "none", Null)
          [] key = "rightArrow" \/ key = "l" ->
                 Handled(IF b.currentPage < totalPages(b) - 1
                         THEN [b EXCEPT !.currentPage = @ + 1, !.selectedIndex = 0]
                         ELSE b, "none", Null)
          [] key = "g" ->
                 Handled([b EXCEPT !.currentPage = 0, !.selectedIndex = 0],
                         "none", Null)
          [] key = "G" ->
                 Handled([b EXCEPT !.currentPage = totalPages(b) - 1,
                                   !.selectedIndex =
                                       Min(ITEMS_PER_PAGE - 1,
                                           Len(filteredTasks(b)) - startIndex(b) - 1)],
                         "none", Null)
          [] key = "return" -> ExecuteSelected(b, b)
          [] key = "/" -> Handled([b EXCEPT !.isFiltering = TRUE], "none", Null)
          [] key = "c" /\ b.filter # <<>> ->
                 Handled([b EXCEPT !.filter = <<>>], "none", Null)
          [] OTHER -> Handled(b, "none", Null)

(***************************************************************************)
(* utils.ts: executeCommand spawns the child and returns a promise that    *)
(* the child's 'close' and 'error' events settle.                          *)
(***************************************************************************)
\* the code argument of 'close': an exit code, or null after a signal
CloseCodes == {"0", "1", "null"}

\* resolve() and reject() act on a pending promise only
Settle(promise, outcome) == IF promise = "pending" THEN outcome ELSE promise

\* the 'close' listener taking a null code for success
onCloseNullIsSuccess(code) ==
    IF code \in {"0", "null"} THEN "fulfilled" ELSE "rejected"

\* proc.on('close', ...): what the listener settles the promise to
onClose(code) == IF code = "0" THEN "fulfilled" ELSE "rejected"

\* proc.on('error', ...)
onError == "rejected"

\* spawn(command, args, ...) inside a new promise
spawn(p, from) ==
    [spawns |-> p.spawns + 1, launchedFrom |-> from, emitted |-> <<>>,
     promise |-> "pending"]

Emitted(event, code) == [event |-> event, code |-> code]

HasClosed(p) == \E k \in 1..Len(p.emitted) : p.emitted[k].event = "close"

(***************************************************************************)
(* root.ts: the root command.  Every function yields what the CLI does     *)
(* next: returns, throws, renders a screen or executes a task.             *)
(***************************************************************************)
Return == [kind |-> "return", tasks |-> <<>>, filter |-> <<>>]

Throw == [kind |-> "throw", tasks |-> <<>>, filter |-> <<>>]

RenderProjectsList == [kind |-> "projects", tasks |-> <<>>, filter |-> <<>>]

RenderTasksList(tasks, initialFilter) ==
    [kind |-> "tasks", tasks |-> tasks, filter |-> initialFilter]

ExecuteSingleTask(task) == [kind |-> "execute", tasks |-> <<task>>, filter |-> <<>>]

\* executeWithoutArgs up to its first screen
executeWithoutArgs(list) ==
    IF workspaceInfo.isWorkspace /\ Len(workspaceInfo.projects) > 0
    THEN RenderProjectsList
    ELSE LET tasks == getAllManagerTasks(list)
         IN IF tasks.threw THEN Throw
            ELSE IF Len(tasks.value) = 0 THEN Return
            ELSE RenderTasksList(tasks.value, <<>>)

\* executeWithoutArgs from the moment renderProjectsList resolved; selected
\* is 0 for null, else the place of the project in workspaceInfo.projects
afterProjectsList(selected) ==
    IF selected = 0 THEN Return
    ELSE LET projectManagers == workspaceInfo.projects[selected].managers
             projectTasks == getAllManagerTasks(projectManagers)
         IN IF Len(projectManagers) = 0 THEN Return
            ELSE IF projectTasks.threw THEN Throw
            ELSE IF Len(projectTasks.value) = 0 THEN Return
            ELSE RenderTasksList(projectTasks.value, <<>>)

executeWithArgs(list, query, autoSelectClosest) ==
    LET closestTask == findClosestTaskFromList(list)
        allClosest == findAllClosestTasks(list)
        threw == IF autoSelectClosest THEN closestTask.threw ELSE allClosest.threw
        tasks == IF autoSelectClosest
                 THEN IF IsNull(closestTask.value) THEN <<>>
                      ELSE <<closestTask.value>>
                 ELSE allClosest.value
    IN IF threw THEN Throw
       ELSE IF Len(tasks) = 0 THEN executeWithoutArgs(list)
       ELSE IF Len(tasks) = 1 THEN ExecuteSingleTask(tasks[1])
       ELSE RenderTasksList(tasks, query)

\* executeCommand of root.ts on the managers parseManagers found
executeCommand(list, query, autoSelectClosest) ==
    IF Len(list) = 0 THEN Return
    ELSE IF query = <<>> THEN executeWithoutArgs(list)
    ELSE executeWithArgs(list, query, autoSelectClosest)

\* process.exit(1) in a catch that lets the browser's failure pass
ExitStatusOnFailureSwallowed(launchedFrom) ==
    IF launchedFrom = "browser" THEN 0 ELSE 1

\* process.exit(1) in the catch of the action handler ("direct") and of the
\* browser's setImmediate callback ("browser")
ExitStatusOnFailure(launchedFrom) == 1

(***************************************************************************)
(* CLI state machine: one invocation of the root command, the keys the     *)
(* user presses on its screens, and the events of the child it spawns      *)
(***************************************************************************)
Build == <<"b", "u", "i", "l", "d">>

BldTask == <<"B", "l", "d">>

Bld == <<"b", "l", "d">>

CliNames == {Build, BldTask}

\* the Manager implementations of the invocation: one without tasks, one
\* with a task, one with two, one whose listTasks rejects
CliManagers ==
    {[tasks |-> t, fails |-> FALSE] :
        t \in {<<>>, <<Task(Build)>>, <<Task(Build), Task(BldTask)>>}}
        \cup {[tasks |-> <<>>, fails |-> TRUE]}

CliManagerLists ==
    {<<>>} \cup {<<m>> : m \in CliManagers}
           \cup {<<m, n>> : m \in CliManagers, n \in CliManagers}

\* what detectWorkspace can resolve to; a project is known by the managers
\* parseManagers finds at its path
WorkspaceInfos ==
    {[isWorkspace |-> FALSE, projects |-> <<>>],
     [isWorkspace |-> TRUE, projects |-> <<>>]}
        \cup {[isWorkspace |-> TRUE, projects |-> <<[managers |-> m]>>] :
                 m \in {<<>>, <<[tasks |-> <<Task(Build)>>, fails |-> FALSE]>>}}

InitCli ==
    /\ taskQuery \in {<<>>, Bld}
    /\ managerList \in CliManagerLists
    \* no search runs without a query
    /\ fuseScore \in IF taskQuery = <<>> THEN {[n \in CliNames |-> 0]}
                     ELSE [CliNames -> ScoreValues]
    /\ config \in [defaultJSManager : {"npm"},
                   enableDefaultJSManager : {FALSE},
                   autoSelectClosest : BOOLEAN]
    /\ workspaceInfo \in WorkspaceInfos
    /\ cliPc = "start"
    /\ shown = <<>>
    /\ browser = Null
    /\ proc = NoProcess
    /\ exitStatus = -1
    /\ handler = "pending"
    /\ ret = [op |-> "none"]
    /\ fs = {}
    /\ cwd = Root
    /\ managers = <<>>
    /\ pc = "setup"
    /\ NoListing
    /\ NoMemo
    /\ NoUnique
    /\ NoScreens

\* TasksList.tsx mutant: the browser stays mounted after Enter
exitKeepsMounted(b) == b

\* Ink's exit(): the app is unmounted and takes no more keys
exit(b) == Null

\* who awaits executeSingleTask: executeWithArgs does ("direct"); the browser
\* calls it from setImmediate after exit(), and renderTasksList has resolved
\* on waitUntilExit by then
AwaitsChild(from) == from = "direct"

\* the CLI goes on as the outcome says; from is who asks: the action
\* handler ("direct") or the browser
Continue(outcome, from) ==
    /\ cliPc' = CASE outcome.kind \in {"return", "throw"} -> "exited"
                  [] outcome.kind = "execute" -> "executing"
                  [] OTHER -> outcome.kind
    /\ exitStatus' = CASE outcome.kind = "return" -> 0
                       [] outcome.kind = "throw" -> ExitStatusOnFailure("direct")
                       [] OTHER -> exitStatus
    /\ shown' = IF outcome.kind \in {"projects", "tasks"}
                THEN Append(shown, [screen |-> outcome.kind,
                                    tasks |-> outcome.tasks,
                                    initialFilter |-> outcome.filter])
                ELSE shown
    /\ browser' = IF outcome.kind = "tasks"
                  THEN TasksList(outcome.tasks, outcome.filter)
                  ELSE exit(browser)
    /\ proc' = IF outcome.kind = "execute" THEN spawn(proc, from) ELSE proc
    /\ handler' = CASE outcome.kind = "return" -> "resolved"
                     [] outcome.kind = "throw" -> "rejected"
                     [] outcome.kind = "execute" /\ ~AwaitsChild(from) -> "resolved"
                     [] OTHER -> handler

\* the action handler of the root command calls executeCommand
RunRootCommand ==
    /\ cliPc = "start"
    /\ Continue(executeCommand(managerList, taskQuery, config.autoSelectClosest),
                "direct")
    /\ UNCHANGED <<taskQuery, workspaceInfo>>
    /\ UNCHANGED <<discoveryVars, resolveVars, listVars, memoVars, uniqueVars,
                   screenVars>>

\* the user picks a project on the projects screen, or leaves it
SelectProject ==
    \E selected \in 0..Len(workspaceInfo.projects) :
        /\ cliPc = "projects"
        /\ Continue(afterProjectsList(selected), "direct")
        /\ UNCHANGED <<taskQuery, workspaceInfo>>
        /\ UNCHANGED <<discoveryVars, resolveVars, listVars, memoVars, uniqueVars,
                       screenVars>>

\* the user presses a key in the task browser
PressKey ==
    \E key \in Keys :
        /\ ~IsNull(browser)
        /\ browser.isFiltering /\ ~browser.showHelp
                                /\ key \notin SpecialKeys \cup {"?"}
               => key \in TypedKeys /\ Len(browser.filter) < MaxFilter
        /\ LET handled == useInput(browser, key)
           IN CASE handled.effect = "execute" ->
                       /\ Continue(ExecuteSingleTask(handled.selected), "browser")
                [] handled.effect = "exit" -> Continue(Return, "browser")
                [] OTHER ->
                       /\ browser' = handled.state
                       /\ UNCHANGED <<cliPc, shown, proc, exitStatus, handler>>
        /\ UNCHANGED <<taskQuery, workspaceInfo>>
        /\ UNCHANGED <<discoveryVars, resolveVars, listVars, memoVars, uniqueVars,
                       screenVars>>

\* the child could not be spawned: 'error' is its first event
ChildError ==
    /\ cliPc = "executing"
    /\ proc.emitted = <<>>
    /\ proc' = [proc EXCEPT !.emitted = <<Emitted("error", "none")>>,
                            !.promise = Settle(@, onError)]
    /\ UNCHANGED <<taskQuery, workspaceInfo, cliPc, shown, browser, exitStatus,
                       handler>>
    /\ UNCHANGED <<discoveryVars, resolveVars, listVars, memoVars, uniqueVars,
                   screenVars>>

\* the child's streams close: after a spawn error never with code 0
ChildClose ==
    \E code \in CloseCodes :
        /\ cliPc = "executing"
        /\ ~HasClosed(proc)
        /\ proc.emitted # <<>> => code # "0"
        /\ proc' = [proc EXCEPT !.emitted = Append(@, Emitted("close", code)),
                                !.promise = Settle(@, onClose(code))]
        /\ UNCHANGED <<taskQuery, workspaceInfo, cliPc, shown, browser, exitStatus,
                       handler>>
        /\ UNCHANGED <<discoveryVars, resolveVars, listVars, memoVars, uniqueVars,
                       screenVars>>

\* the await of executeSingleTask goes on once the promise is settled: the
\* caller returns and the process ends, or the catch calls process.exit
AfterExecute ==
    /\ cliPc = "executing"
    /\ proc.promise # "pending"
    /\ cliPc' = "exited"
    /\ exitStatus' = IF proc.promise = "fulfilled" THEN 0
                     ELSE ExitStatusOnFailure(proc.launchedFrom)
    /\ handler' = CASE ~AwaitsChild(proc.launchedFrom) -> handler
                     [] proc.promise = "fulfilled" -> "resolved"
                     [] OTHER -> "rejected"
    /\ UNCHANGED <<taskQuery, workspaceInfo, shown, browser, proc>>
    /\ UNCHANGED <<discoveryVars, resolveVars, listVars, memoVars, uniqueVars,
                   screenVars>>

NextCli ==
    \/ RunRootCommand
    \/ SelectProject
    \/ PressKey
    \/ ChildError
    \/ ChildClose
    \/ AfterExecute

SpecCli == InitCli /\ [][NextCli]_vars

\* the event loop runs every continuation that is ready
SpecCliFair == SpecCli /\ WF_vars(AfterExecute)

(***************************************************************************)
(* Properties of the CLI                                                   *)
(***************************************************************************)
Dispatched == cliPc # "start"

AllMatches == findAllClosestTasks(managerList).value

ListAll == getAllManagerTasks(managerList).value

\* the matches the policy in force works with
PolicyMatches ==
    IF config.autoSelectClosest
    THEN IF IsNull(findClosestTaskFromList(managerList).value) THEN <<>>
         ELSE <<findClosestTaskFromList(managerList).value>>
    ELSE AllMatches

FirstScreenIsBrowserOf(tasks) ==
    /\ Len(shown) >= 1
    /\ shown[1].screen = "tasks"
    /\ shown[1].tasks = tasks

NoTaskWithoutSelection == proc.spawns > 0 => proc.launchedFrom = "browser"

\* C11: with a query and autoSelectClosest disabled, a query with at least
\* one match (exactly one included) opens the task browser on the ranked
\* all-matches list, and no task is executed that the user did not select
\* in the browser.
C11_MatchesGoToBrowser ==
    (/\ Dispatched
     /\ taskQuery # <<>>
     /\ ~config.autoSelectClosest
     /\ Len(managerList) > 0
     /\ Len(AllMatches) >= 1)
        => FirstScreenIsBrowserOf(AllMatches) /\ NoTaskWithoutSelection

\* C12: when the query matches nothing, under either auto-select setting,
\* the first and only kind of screen shown is the task browser on the
\* unfiltered list-all result of the managers discovered for the current
\* directory, and no task is executed that the user did not select there.
C12_FallbackToListAll ==
    (/\ Dispatched
     /\ taskQuery # <<>>
     /\ Len(managerList) > 0
     /\ Len(PolicyMatches) = 0
     /\ Len(ListAll) > 0)
        => /\ FirstScreenIsBrowserOf(ListAll)
           /\ shown[1].initialFilter = <<>>
           /\ \A k \in 1..Len(shown) : shown[k].screen = "tasks"
           /\ NoTaskWithoutSelection

\* C13: when the browser is opened on the fuzzy matches of a query, every
\* ManagerTask handed to it is visible, hence selectable, in its initial
\* state: the initial filter hides none of them.
C13_InitialFilterHidesNothing ==
    (/\ cliPc = "tasks"
     /\ taskQuery # <<>>
     /\ browser.initialFilter = taskQuery
     /\ browser = TasksList(browser.tasks, browser.initialFilter))
        => visibleTasks(browser) = browser.tasks

ClosedWith(code) ==
    \E k \in 1..Len(proc.emitted) : proc.emitted[k] = Emitted("close", code)

\* C14: executeCommand spawns the child once and never again, its promise
\* is fulfilled exactly when the child closed with code 0 and rejected
\* exactly when it emitted anything else ('error', or 'close' with another
\* code or with null), and a settled promise never changes, also when
\* 'close' follows 'error'.
C14_SettlesOnceByExitCode ==
    /\ [](/\ proc.spawns <= 1
          /\ proc.promise = "fulfilled" <=> ClosedWith("0")
          /\ proc.promise = "rejected" <=> proc.emitted # <<>> /\ ~ClosedWith("0"))
    /\ [][/\ proc.promise # "pending" => proc'.promise = proc.promise
          /\ proc'.spawns >= proc.spawns]_vars

C14_Witness ==
    /\ proc.spawns = 1
    /\ proc.emitted = <<Emitted("error", "none"), Emitted("close", "null")>>
    /\ proc.promise = "rejected"

ChildFailed == proc.emitted # <<>> /\ proc.emitted[1] # Emitted("close", "0")

\* C15: whenever the child spawned for the chosen task fails to spawn or
\* exits with a non-zero code, the CLI process eventually terminates with a
\* non-zero exit status, whether the task was started by the query directly
\* or from the browser with Enter.
C15_FailureExitsNonZero ==
    ChildFailed ~> (cliPc = "exited" /\ exitStatus > 0)

C15_Witness ==
    /\ proc.launchedFrom = "browser"
    /\ ChildFailed
    /\ cliPc = "exited"
    /\ exitStatus = 1

\* C21: one invocation starts at most one task execution, whichever way the
\* task is reached (query, fallback, keys in the browser), and once an
\* execution has failed nothing more is executed.
C21_AtMostOneExecution ==
    /\ [](proc.spawns <= 1)
    /\ [][proc.promise = "rejected" => proc'.spawns = proc.spawns]_vars

C21_Witness ==
    /\ cliPc = "exited"
    /\ proc.spawns = 1
    /\ proc.launchedFrom = "browser"
    /\ proc.promise = "rejected"
    /\ exitStatus = 1

\* C22: once a task has been chosen for execution, the promise of the
\* command's action handler does not settle before the child process of the
\* task has exited, for a direct execution and for one started in the browser.
C22_HandlerAwaitsChild ==
    proc.spawns > 0 /\ handler # "pending" => proc.promise # "pending"

(***************************************************************************)
(* listTasks of JsManager (js-manager.ts) and TaskManager                  *)
(* (task-manager.ts).  A file is missing, unreadable (readFile rejects),   *)
(* malformed (the parser throws) or parsed to a value.  Strings are        *)
(* sequences; Undefined stands for an absent value.  A map is the sequence *)
(* of its entries in key order, as Object.entries yields them.             *)
(***************************************************************************)
Undefined == <<"undefined">>

\* createTask(name, description, directory) of task.ts
createTask(name, description, directory) ==
    [name |-> name, description |-> description, directory |-> directory]

Resolved(value) == [threw |-> FALSE, value |-> value]

Rejected == [threw |-> TRUE, value |-> <<>>]

\* parseJSON / parseYAML: readFile, then the parser
parseFile(file) ==
    IF file.state = "parsed" THEN Resolved(file.value) ELSE Rejected

\* the try block of JsManager.listTasks
JsListTasksTry(directory, files, file) ==
    LET packageJson == parseFile(file)
    IN IF ~fileExists(join(directory, "package.json"), files) THEN Resolved(<<>>)
       ELSE IF packageJson.threw THEN Rejected
       \* reading a property of null throws a TypeError
       ELSE IF packageJson.value.type = "null" THEN Rejected
       ELSE IF ~packageJson.value.scripts.present THEN Resolved(<<>>)
       ELSE LET entries == packageJson.value.scripts.entries
            IN Resolved([k \in 1..Len(entries) |->
                   createTask(entries[k].name, entries[k].def, directory)])

\* JsManager.listTasks: the catch block returns []
JsListTasks(directory, files, file) ==
    LET tried == JsListTasksTry(directory, files, file)
    IN IF tried.threw THEN Resolved(<<>>) ELSE tried

\* taskDef.desc || taskDef.summary || undefined; empty strings are falsy
DescriptionOf(taskDef) ==
    IF taskDef.desc # Undefined /\ taskDef.desc # <<>> THEN taskDef.desc
    ELSE IF taskDef.summary # Undefined /\ taskDef.summary # <<>>
    THEN taskDef.summary
    ELSE Undefined

\* the try block of TaskManager.listTasks
TaskListTasksTry(directory, files, file) ==
    LET taskfileYaml == parseFile(file)
    IN IF findTaskfile(directory, files) = "null" THEN Resolved(<<>>)
       ELSE IF taskfileYaml.threw THEN Rejected
       \* yaml.load of an empty document is undefined
       ELSE IF taskfileYaml.value.type = "undefined" THEN Rejected
       ELSE IF taskfileYaml.value.version # "3" THEN Resolved(<<>>)
       ELSE IF ~taskfileYaml.value.tasks.present THEN Resolved(<<>>)
       ELSE LET entries == taskfileYaml.value.tasks.entries
            IN IF \E k \in 1..Len(entries) : entries[k].def.type = "null"
               THEN Rejected
               ELSE Resolved([k \in 1..Len(entries) |->
                        createTask(entries[k].name, DescriptionOf(entries[k].def),
                                   directory)])

\* TaskManager.listTasks without its try/catch
TaskListTasksNoCatch(directory, files, file) ==
    TaskListTasksTry(directory, files, file)

\* TaskManager.listTasks: the catch block returns []
TaskListTasks(directory, files, file) ==
    LET tried == TaskListTasksTry(directory, files, file)
    IN IF tried.threw THEN Resolved(<<>>) ELSE tried

\* JsManager.listTasks sorting what it returns
ManagerListTasksSorted(manager, files, package, taskfileYaml) ==
    IF manager.kind = "JsManager"
    THEN LET result == JsListTasks(manager.directory, files, package)
         IN [result EXCEPT !.value = sortTasks(@)]
    ELSE TaskListTasks(manager.directory, files, taskfileYaml)

\* manager.listTasks() of a discovered manager
ManagerListTasks(manager, files, package, taskfileYaml) ==
    IF manager.kind = "JsManager"
    THEN JsListTasks(manager.directory, files, package)
    ELSE TaskListTasks(manager.directory, files, taskfileYaml)

(***************************************************************************)
(* Listing state machine: a working directory with a package.json and a    *)
(* Taskfile.yml in some state; discovery runs, then listTasks() is called  *)
(* on the managers it found.                                               *)
(***************************************************************************)
NoEntries == [present |-> FALSE, entries |-> <<>>]

Entries(e) == [present |-> TRUE, entries |-> e]

Parsed(value) == [state |-> "parsed", value |-> value]

Unparsed(state) == [state |-> state, value |-> [type |-> "none"]]

ScriptNames == {<<"a">>, <<"B">>}

Commands == {<<"tsc">>, <<"vite">>}

\* the scripts maps: up to two keys, in the order they are written
ScriptMaps ==
    {<<>>} \cup {<<[name |-> n, def |-> c]>> : n \in ScriptNames, c \in Commands}
           \cup {<<[name |-> p[1], def |-> c], [name |-> p[2], def |-> d]>> :
                    p \in {q \in ScriptNames \X ScriptNames : q[1] # q[2]},
                    c \in Commands, d \in Commands}

PkgFiles ==
    {Unparsed("missing"), Unparsed("unreadable"), Unparsed("malformed"),
     Parsed([type |-> "null", scripts |-> NoEntries]),
     Parsed([type |-> "number", scripts |-> NoEntries]),
     Parsed([type |-> "object", scripts |-> NoEntries])}
        \cup {Parsed([type |-> "object", scripts |-> Entries(e)]) : e \in ScriptMaps}

\* the shapes of a task definition: empty, a command string, a mapping
\* with or without desc and summary
TaskDefs ==
    {[type |-> "null", desc |-> Undefined, summary |-> Undefined],
     [type |-> "string", desc |-> Undefined, summary |-> Undefined],
     [type |-> "object", desc |-> Undefined, summary |-> Undefined],
     [type |-> "object", desc |-> <<"d">>, summary |-> Undefined],
     [type |-> "object", desc |-> <<>>, summary |-> <<"s">>]}

TaskMaps ==
    {<<>>} \cup {<<[name |-> <<"a">>, def |-> d]>> : d \in TaskDefs}
           \cup {<<[name |-> <<"a">>, def |-> d], [name |-> <<"b">>, def |-> e]>> :
                    d \in TaskDefs, e \in TaskDefs}

TaskfileFiles ==
    {Unparsed("missing"), Unparsed("unreadable"), Unparsed("malformed"),
     Parsed([type |-> "undefined", version |-> "absent", tasks |-> NoEntries]),
     Parsed([type |-> "string", version |-> "absent", tasks |-> NoEntries])}
        \cup {Parsed([type |-> "object", version |-> v,
                      tasks |-> Entries(<<[name |-> <<"a">>,
                                           def |-> [type |-> "object",
                                                    desc |-> <<"d">>,
                                                    summary |-> Undefined]]>>)]) :
                 v \in {"2", "number 3", "absent"}}
        \cup {Parsed([type |-> "object", version |-> "3", tasks |-> NoEntries])}
        \cup {Parsed([type |-> "object", version |-> "3", tasks |-> Entries(e)]) :
                 e \in TaskMaps}

\* the package.json of the directory above the working directory
ParentPackage ==
    Parsed([type |-> "object",
            scripts |-> Entries(<<[name |-> <<"a">>, def |-> <<"tsc">>]>>)])

PackageAt(directory) == IF directory = cwd THEN pkg ELSE ParentPackage

NotCalled == [threw |-> FALSE, value |-> <<>>, called |-> FALSE]

InitList ==
    /\ cwd = DirA
    /\ pkg \in PkgFiles
    /\ taskfile \in TaskfileFiles
    /\ \E gitAt \in {DirA, Root}, parentManifest \in BOOLEAN :
           fs = {<<gitAt, ".git">>}
                    \cup (IF pkg.state # "missing"
                          THEN {<<cwd, "package.json">>} ELSE {})
                    \cup (IF taskfile.state # "missing"
                          THEN {<<cwd, "Taskfile.yml">>} ELSE {})
                    \cup (IF parentManifest
                          THEN {<<Root, "package.json">>} ELSE {})
    /\ config = DefaultConfig
    /\ managers = <<>>
    /\ pc = "setup"
    /\ listings = <<>>
    /\ NoResolve
    /\ NoCli
    /\ NoMemo
    /\ NoUnique
    /\ NoScreens

\* parseManagers(process.cwd(), ...)
Discover ==
    /\ pc = "setup"
    /\ managers' = parseManagers(cwd, config.defaultJSManager, fs)
    /\ listings' = [i \in 1..Len(managers') |-> NotCalled]
    /\ pc' = "parsed"
    /\ UNCHANGED <<fs, cwd, config, pkg, taskfile>>
    /\ UNCHANGED <<resolveVars, cliVars, memoVars, uniqueVars,
                   screenVars>>

\* await managers[i].listTasks()
ListTasks ==
    \E i \in 1..Len(managers) :
        /\ pc = "parsed"
        /\ ~listings[i].called
        /\ LET result == ManagerListTasks(managers[i], fs,
                                          PackageAt(managers[i].directory), taskfile)
           IN listings' = [listings EXCEPT ![i] =
                  [threw |-> result.threw, value |-> result.value, called |-> TRUE]]
        /\ UNCHANGED <<discoveryVars, pkg, taskfile>>
        /\ UNCHANGED <<resolveVars, cliVars, memoVars, uniqueVars,
                       screenVars>>

NextList == Discover \/ ListTasks

SpecList == InitList /\ [][NextList]_vars

(***************************************************************************)
(* Properties of listing                                                   *)
(***************************************************************************)
\* package.json states from which no script can be read
PkgUnusable ==
    \/ pkg.state # "parsed"
    \/ pkg.value.type # "object"
    \/ ~pkg.value.scripts.present

\* Taskfile states from which no task can be read
TaskfileUnusable ==
    \/ taskfile.state # "parsed"
    \/ taskfile.value.type # "object"
    \/ taskfile.value.version # "3"
    \/ ~taskfile.value.tasks.present

KeysOf(entries) == [k \in 1..Len(entries) |-> entries[k].name]

IsJsAt(i, directory) ==
    managers[i].kind = "JsManager" /\ managers[i].directory = directory

IsTaskAt(i, directory) ==
    managers[i].kind = "TaskManager" /\ managers[i].directory = directory

HasEmptyDefinition ==
    \E k \in 1..Len(taskfile.value.tasks.entries) :
        taskfile.value.tasks.entries[k].def.type = "null"

\* C16: listTasks() of a JsManager and of a TaskManager never throws; it
\* returns the empty list when the file is missing, unreadable, malformed,
\* parsed to null or to a non-object, of an unsupported version, or lacks
\* its scripts/tasks section; and what one manager of the directory returns
\* does not depend on the state of the other manager's file.
C16_ListTasksNeverThrows ==
    \A i \in 1..Len(listings) :
        listings[i].called =>
            /\ ~listings[i].threw
            /\ IsJsAt(i, cwd) /\ PkgUnusable => listings[i].value = <<>>
            /\ IsTaskAt(i, cwd) /\ TaskfileUnusable => listings[i].value = <<>>
            /\ IsJsAt(i, cwd) /\ ~PkgUnusable =>
                   NamesOf(listings[i].value) = KeysOf(pkg.value.scripts.entries)
            /\ IsTaskAt(i, cwd) /\ ~TaskfileUnusable /\ ~HasEmptyDefinition =>
                   NamesOf(listings[i].value) = KeysOf(taskfile.value.tasks.entries)

C16_Witness ==
    \E i, j \in 1..Len(listings) :
        /\ IsJsAt(i, cwd) /\ listings[i].called
        /\ IsTaskAt(j, cwd) /\ listings[j].called
        /\ taskfile.state = "malformed"
        /\ listings[j].value = <<>>
        /\ Len(listings[i].value) = 2

\* the start directory is its own repository root and holds only a
\* package.json with a non-empty scripts map
OnlyPackageJson ==
    /\ <<cwd, ".git">> \in fs
    /\ taskfile.state = "missing"
    /\ ~PkgUnusable
    /\ Len(pkg.value.scripts.entries) > 0

\* one Task per script key, the command as description, the manager's
\* directory as directory
OneTaskPerScript(tasks, directory) ==
    /\ Len(tasks) = Len(pkg.value.scripts.entries)
    /\ \A e \in 1..Len(pkg.value.scripts.entries) :
           Count(tasks, createTask(pkg.value.scripts.entries[e].name,
                                   pkg.value.scripts.entries[e].def,
                                   directory)) = 1

\* names in case-insensitive order
InCaseInsensitiveOrder(tasks) ==
    \A k \in 1..(Len(tasks) - 1) :
        LetterCompare(tasks[k].name, tasks[k + 1].name) <= 0

\* C17 as stated: for a start directory that is its own repository root
\* and holds only a package.json with a non-empty scripts map, parseManagers
\* returns one Manager and its listTasks() returns one Task per script key in
\* case-insensitive name order, with the command as description and the
\* manager's directory as directory.
C17_SortedListing ==
    OnlyPackageJson /\ pc = "parsed" =>
        /\ Len(managers) = 1
        /\ listings[1].called =>
               /\ OneTaskPerScript(listings[1].value, managers[1].directory)
               /\ InCaseInsensitiveOrder(listings[1].value)

\* C17 amended: under the same precondition parseManagers returns one
\* Manager, a JsManager of the start directory, and its listTasks() returns
\* one Task per script key in the key order of the manifest, with the
\* command as description and the manager's directory as directory.
C17_ListingInKeyOrder ==
    OnlyPackageJson /\ pc = "parsed" =>
        /\ Len(managers) = 1
        /\ IsJsAt(1, cwd)
        /\ listings[1].called =>
               /\ OneTaskPerScript(listings[1].value, managers[1].directory)
               /\ NamesOf(listings[1].value) = KeysOf(pkg.value.scripts.entries)

C17_Witness ==
    /\ OnlyPackageJson
    /\ pc = "parsed"
    /\ listings[1].called
    /\ NamesOf(listings[1].value) = <<<<"B">>, <<"a">>>>

\* C18: for a parseable Taskfile of version "3" with a tasks section,
\* TaskManager.listTasks() returns one Task per declared key, none dropped,
\* each with the manager's directory, whatever the shape of the definitions,
\* an empty definition included.
C18_OneTaskPerKey ==
    \A i \in 1..Len(listings) :
        listings[i].called /\ IsTaskAt(i, cwd) /\ ~TaskfileUnusable =>
            /\ NamesOf(listings[i].value) = KeysOf(taskfile.value.tasks.entries)
            /\ \A k \in 1..Len(listings[i].value) :
                   listings[i].value[k].directory = managers[i].directory

(***************************************************************************)
(* task-manager.ts: findTaskfile on one TaskManager instance, with its     *)
(* taskfilePath memo.  The result names the path, the memo afterwards and  *)
(* the paths whose existence was probed, in order.                         *)
(***************************************************************************)
MaxCalls == 3

RECURSIVE ProbeFrom(_, _, _)
\* the for loop over taskfileNames from name i on
ProbeFrom(i, directory, files) ==
    IF i > Len(taskfileNames)
    THEN [path |-> NullPath, memo |-> NullPath, probed |-> <<>>]
    ELSE LET path == join(directory, taskfileNames[i])
             rest == ProbeFrom(i + 1, directory, files)
         IN IF fileExists(path, files)
            THEN [path |-> path, memo |-> path, probed |-> <<path>>]
            ELSE [rest EXCEPT !.probed = <<path>> \o @]

\* findTaskfile looking for the file on every call
findTaskfileUncached(memo, directory, files) ==
    ProbeFrom(1, directory, files)

\* findTaskfile(), memo being this.taskfilePath
findTaskfileCached(memo, directory, files) ==
    IF memo # NullPath
    THEN [path |-> memo, memo |-> memo, probed |-> <<>>]
    ELSE ProbeFrom(1, directory, files)

InitMemo ==
    /\ fs = {}
    /\ cwd = Root
    /\ NoMemo
    /\ config = DefaultConfig
    /\ managers = <<>>
    /\ pc = "setup"
    /\ NoResolve
    /\ NoCli
    /\ NoListing
    /\ NoUnique
    /\ NoScreens

\* a Taskfile of some name is created in the manager's directory
CreateTaskfile ==
    \E i \in 1..Len(taskfileNames) :
        /\ join(cwd, taskfileNames[i]) \notin fs
        /\ fs' = fs \cup {join(cwd, taskfileNames[i])}
        /\ UNCHANGED <<cwd, config, managers, pc, memoVars>>
        /\ UNCHANGED <<resolveVars, cliVars, listVars, uniqueVars,
                       screenVars>>

\* a Taskfile is removed from the manager's directory
RemoveTaskfile ==
    \E i \in 1..Len(taskfileNames) :
        /\ join(cwd, taskfileNames[i]) \in fs
        /\ fs' = fs \ {join(cwd, taskfileNames[i])}
        /\ UNCHANGED <<cwd, config, managers, pc, memoVars>>
        /\ UNCHANGED <<resolveVars, cliVars, listVars, uniqueVars,
                       screenVars>>

\* listTasks() on the instance: findTaskfile, then the file at that path
\* is read
CallListTasks ==
    /\ lastCall.calls < MaxCalls
    /\ LET found == findTaskfileCached(taskfilePath, cwd, fs)
       IN /\ taskfilePath' = found.memo
          /\ lastCall' = [calls |-> lastCall.calls + 1,
                          probed |-> found.probed,
                          used |-> found.path]
    /\ UNCHANGED discoveryVars
    /\ UNCHANGED <<resolveVars, cliVars, listVars, uniqueVars,
                   screenVars>>

NextMemo == CreateTaskfile \/ RemoveTaskfile \/ CallListTasks

SpecMemo == InitMemo /\ [][NextMemo]_vars

\* the first name of the priority list that exists
FirstExisting(path, files) ==
    \E i \in 1..Len(taskfileNames) :
        /\ path = join(cwd, taskfileNames[i])
        /\ path \in files
        /\ \A j \in 1..(i - 1) : join(cwd, taskfileNames[j]) \notin files

\* C19: on one TaskManager instance the first lookup that finds a Taskfile
\* takes the first existing name of the priority list and caches its path;
\* from then on the cached path never changes and every listTasks() uses it
\* without probing the file system, whatever is created or removed.
C19_LookupIsMemoized ==
    [][/\ taskfilePath # NullPath =>
              /\ taskfilePath' = taskfilePath
              /\ lastCall'.calls > lastCall.calls =>
                     lastCall'.probed = <<>> /\ lastCall'.used = taskfilePath
       /\ taskfilePath = NullPath /\ taskfilePath' # NullPath =>
              /\ FirstExisting(taskfilePath', fs)
              /\ lastCall'.used = taskfilePath']_vars

C19_Witness ==
    /\ taskfilePath = join(cwd, "taskfile.yml")
    /\ join(cwd, "taskfile.yml") \notin fs
    /\ join(cwd, "Taskfile.yml") \in fs
    /\ lastCall.calls >= 2
    /\ lastCall.probed = <<>>
    /\ lastCall.used = taskfilePath

(***************************************************************************)
(* task.ts: filterUniqueTasks.  Names and directories are strings, that    *)
(* is sequences of characters; a task without directory has Undefined.     *)
(***************************************************************************)
MaxTasks == 3

\* `${task.name}-${task.directory || ''}`
TaskKey(task) ==
    task.name \o <<"-">>
        \o (IF task.directory = Undefined \/ task.directory = <<>>
            THEN <<>> ELSE task.directory)

RECURSIVE FilterUnseen(_, _)
\* tasks.filter(...) with the Set of keys seen so far
FilterUnseen(tasks, seen) ==
    IF tasks = <<>> THEN <<>>
    ELSE IF TaskKey(Head(tasks)) \in seen
    THEN FilterUnseen(Tail(tasks), seen)
    ELSE <<Head(tasks)>>
             \o FilterUnseen(Tail(tasks), seen \cup {TaskKey(Head(tasks))})

filterUniqueTasks(tasks) == FilterUnseen(tasks, {})

UniqueNames == {<<"a">>, <<"a", "-", "b">>}

UniqueDirectories == {Undefined, <<>>, <<"b", "-">>, <<"p">>}

UniqueTasks ==
    {[name |-> n, directory |-> d] : n \in UniqueNames, d \in UniqueDirectories}

InitUnique ==
    /\ taskList \in UNION {[1..n -> UniqueTasks] : n \in 0..MaxTasks}
    /\ ret = [op |-> "none", value |-> <<>>]
    /\ managerList = <<>>
    /\ fuseScore = <<>>
    /\ fs = {}
    /\ cwd = Root
    /\ config = DefaultConfig
    /\ managers = <<>>
    /\ pc = "setup"
    /\ NoCli
    /\ NoListing
    /\ NoMemo
    /\ NoScreens

CallFilterUniqueTasks ==
    /\ ret.op = "none"
    /\ ret' = [op |-> "filterUniqueTasks", value |-> filterUniqueTasks(taskList)]
    /\ UNCHANGED <<managerList, fuseScore, taskList>>
    /\ UNCHANGED <<discoveryVars, cliVars, listVars, memoVars,
                   screenVars>>

NextUnique == CallFilterUniqueTasks

SpecUnique == InitUnique /\ [][NextUnique]_vars

RECURSIVE KeepAt(_, _)
\* the entries of tasks at the places in keep, in order
KeepAt(tasks, keep) ==
    IF tasks = <<>> THEN <<>>
    ELSE KeepAt(SubSeq(tasks, 1, Len(tasks) - 1), keep)
             \o (IF Len(tasks) \in keep THEN <<tasks[Len(tasks)]>> ELSE <<>>)

\* the places holding the first task of each name and directory
FirstOccurrences(tasks) ==
    {i \in 1..Len(tasks) : \A j \in 1..(i - 1) : tasks[j] # tasks[i]}

\* C20: filterUniqueTasks returns, in the original order, the first
\* occurrence of each task: tasks of identical name and identical (or both
\* absent) directory collapse to one, tasks of the same name and different
\* directory values all survive, for every input list.
C20_KeepsFirstOccurrences ==
    ret.op = "filterUniqueTasks" =>
        ret.value = KeepAt(taskList, FirstOccurrences(taskList))

\* C30: filterUniqueTasks never removes a task whose name and directory
\* differ from those of every earlier task of the list, whatever the names
\* and directories are: a '-' inside them, an empty directory next to an
\* absent one.
C30_NoDistinctTaskRemoved ==
    ret.op = "filterUniqueTasks" =>
        \A i \in FirstOccurrences(taskList) : Count(ret.value, taskList[i]) >= 1

(***************************************************************************)
(* config-file.ts: the upward walks findFileInTree, findFilesInTree and    *)
(* findGitRoot over a small tree                                           *)
(***************************************************************************)
MaxTreeFiles == 3

RECURSIVE FileWalk(_, _, _, _)
\* the while loop of findFileInTree from currentDir on
FileWalk(filename, currentDir, rootDir, files) ==
    IF ~(StartsWith(currentDir, rootDir) \/ currentDir = rootDir) THEN NullPath
    ELSE IF fileExists(join(currentDir, filename), files)
    THEN join(currentDir, filename)
    ELSE IF dirname(currentDir) = currentDir THEN NullPath
    ELSE FileWalk(filename, dirname(currentDir), rootDir, files)

findFileInTree(filename, startDir, rootDir, files) ==
    FileWalk(filename, startDir, rootDir, files)

RECURSIVE PushExisting(_, _, _, _)
\* the for loop over filenames in one directory
PushExisting(filenames, currentDir, files, found) ==
    IF filenames = <<>> THEN found
    ELSE LET filePath == join(currentDir, Head(filenames))
         IN PushExisting(Tail(filenames), currentDir, files,
                IF fileExists(filePath, files)
                   /\ \A k \in 1..Len(found) : found[k] # filePath
                THEN Append(found, filePath)
                ELSE found)

RECURSIVE FilesWalk(_, _, _, _, _)
\* the while loop of findFilesInTree from currentDir on
FilesWalk(filenames, currentDir, rootDir, files, found) ==
    IF ~(StartsWith(currentDir, rootDir) \/ currentDir = rootDir) THEN found
    ELSE LET collected == PushExisting(filenames, currentDir, files, found)
         IN IF dirname(currentDir) = currentDir THEN collected
            ELSE FilesWalk(filenames, dirname(currentDir), rootDir, files,
                           collected)

findFilesInTree(filenames, startDir, rootDir, files) ==
    FilesWalk(filenames, startDir, rootDir, files, <<>>)

TreeFilenames == <<"f", "g">>

TreeFiles == StartDirs \X {"f", "g", ".git"}

InitTree ==
    /\ fs \in {files \in SUBSET TreeFiles : Cardinality(files) <= MaxTreeFiles}
    /\ ret = [op |-> "none", startDir |-> Root, rootDir |-> Root, value |-> <<>>]
    /\ managerList = <<>>
    /\ fuseScore = <<>>
    /\ cwd = Root
    /\ config = DefaultConfig
    /\ managers = <<>>
    /\ pc = "setup"
    /\ NoCli
    /\ NoListing
    /\ NoMemo
    /\ NoUnique
    /\ NoScreens

CallFindFileInTree ==
    \E startDir \in StartDirs, rootDir \in StartDirs :
        /\ ret' = [op |-> "findFileInTree", startDir |-> startDir,
                   rootDir |-> rootDir,
                   value |-> findFileInTree("f", startDir, rootDir, fs)]
        /\ UNCHANGED <<managerList, fuseScore>>
        /\ UNCHANGED <<discoveryVars, cliVars, listVars, memoVars, uniqueVars,
                       screenVars>>

CallFindFilesInTree ==
    \E startDir \in StartDirs, rootDir \in StartDirs :
        /\ ret' = [op |-> "findFilesInTree", startDir |-> startDir,
                   rootDir |-> rootDir,
                   value |-> findFilesInTree(TreeFilenames, startDir, rootDir, fs)]
        /\ UNCHANGED <<managerList, fuseScore>>
        /\ UNCHANGED <<discoveryVars, cliVars, listVars, memoVars, uniqueVars,
                       screenVars>>

CallFindGitRoot ==
    \E startDir \in StartDirs :
        /\ ret' = [op |-> "findGitRoot", startDir |-> startDir,
                   rootDir |-> Root, value |-> findGitRoot(startDir, fs)]
        /\ UNCHANGED <<managerList, fuseScore>>
        /\ UNCHANGED <<discoveryVars, cliVars, listVars, memoVars, uniqueVars,
                       screenVars>>

NextTree ==
    \/ CallFindFileInTree
    \/ CallFindFilesInTree
    \/ CallFindGitRoot

SpecTree == InitTree /\ [][NextTree]_vars

\* d is dir or a directory below it
IsAtOrBelow(d, dir) == dir \in Ancestors(d)

\* the directories at or above startDir that are rootDir or below it
WalkedDirs(startDir, rootDir) ==
    {d \in Ancestors(startDir) : IsAtOrBelow(d, rootDir)}

\* the longest, that is the innermost, of a set of ancestors of one directory
Nearest(dirs) == CHOOSE d \in dirs : \A e \in dirs : Len(e) <= Len(d)

\* C23: findFileInTree and findFilesInTree look only into directories that
\* are rootDir or below it: the file of the nearest such directory at or
\* above startDir is returned, and nothing is found from a start directory
\* outside rootDir, a sibling whose path begins with rootDir's characters
\* included.
C23_WalkStaysInsideRoot ==
    LET inside == WalkedDirs(ret.startDir, ret.rootDir)
    IN /\ ret.op = "findFileInTree" =>
              LET holding == {d \in inside : fileExists(join(d, "f"), fs)}
              IN ret.value = IF holding = {} THEN NullPath
                             ELSE join(Nearest(holding), "f")
       /\ ret.op = "findFilesInTree" =>
              {ret.value[k] : k \in 1..Len(ret.value)}
                  = {file \in inside \X {"f", "g"} : fileExists(file, fs)}

\* C24: findGitRoot returns the nearest directory at or above startDir that
\* holds .git, the innermost one of nested repositories, and startDir itself
\* when no directory up to the filesystem root holds one.
C24_NearestGitRoot ==
    ret.op = "findGitRoot" =>
        LET holding == {d \in Ancestors(ret.startDir) :
                            fileExists(join(d, ".git"), fs)}
        IN ret.value = IF holding = {} THEN ret.startDir ELSE Nearest(holding)

C24_Witness ==
    /\ ret.op = "findGitRoot"
    /\ ret.startDir = DirAB
    /\ fileExists(join(DirA, ".git"), fs)
    /\ fileExists(join(Root, ".git"), fs)
    /\ ret.value = DirA

(***************************************************************************)
(* The task browser on its own: lists long enough for several pages and    *)
(* every key of the handler                                                *)
(***************************************************************************)
MaxBrowserTasks == 12

\* the i-th task of a list: a third of the names holds no "u", a third one,
\* a third two
BrowserTask(i) ==
    ManagerTask(Task(CASE i % 3 = 0 -> <<"a">>
                       [] i % 3 = 1 -> <<"u">>
                       [] OTHER -> <<"u", "u">>), i)

BrowserKeys == Keys \cup {"leftArrow", "rightArrow", "k", "j", "h", "l",
                          "g", "G", "c", "q"}

InitBrowser ==
    /\ \E n \in 0..MaxBrowserTasks :
           browser = TasksList([i \in 1..n |-> BrowserTask(i)], <<>>)
    /\ cliPc = "tasks"
    /\ taskQuery = <<>>
    /\ workspaceInfo = [isWorkspace |-> FALSE, projects |-> <<>>]
    /\ shown = <<>>
    /\ proc = NoProcess
    /\ exitStatus = -1
    /\ handler = "pending"
    /\ fs = {}
    /\ cwd = Root
    /\ config = DefaultConfig
    /\ managers = <<>>
    /\ pc = "setup"
    /\ NoResolve
    /\ NoListing
    /\ NoMemo
    /\ NoUnique
    /\ NoScreens

\* the user presses a key in the task browser
BrowseKey ==
    \E key \in BrowserKeys :
        /\ ~IsNull(browser)
        /\ browser.isFiltering /\ ~browser.showHelp
                                /\ key \notin SpecialKeys \cup {"?"}
               => key \in TypedKeys /\ Len(browser.filter) < MaxFilter
        /\ LET handled == useInput(browser, key)
           IN CASE handled.effect = "execute" ->
                       /\ Continue(ExecuteSingleTask(handled.selected), "browser")
                [] handled.effect = "exit" -> Continue(Return, "browser")
                [] OTHER ->
                       /\ browser' = handled.state
                       /\ UNCHANGED <<cliPc, shown, proc, exitStatus, handler>>
        /\ UNCHANGED <<taskQuery, workspaceInfo>>
        /\ UNCHANGED <<discoveryVars, resolveVars, listVars, memoVars, uniqueVars,
                       screenVars>>

NextBrowser == BrowseKey

SpecBrowser == InitBrowser /\ [][NextBrowser]_vars

\* C25: whenever a key changes the filter text of the browser (a typed
\* character, backspace, ESC or 'c' clearing it), the view is back on the
\* first page with the first item selected.
C25_FilterChangeResetsView ==
    [][(/\ ~IsNull(browser)
        /\ ~IsNull(browser')
        /\ browser'.filter # browser.filter)
           => browser'.currentPage = 0 /\ browser'.selectedIndex = 0]_vars

\* C28: after any keys the current page of the task browser is one of
\* 0..max(totalPages - 1, 0) and, when a task matches the filter, the page
\* shows tasks and selectedIndex is the place of one of them, so that Enter
\* has a task to execute.
C28_SelectionOnVisibleTask ==
    ~IsNull(browser) =>
        /\ browser.currentPage >= 0
        /\ browser.currentPage <= totalPages(browser) - 1
               \/ browser.currentPage = 0
        /\ filteredTasks(browser) # <<>> =>
               /\ visibleTasks(browser) # <<>>
               /\ browser.selectedIndex >= 0
               /\ browser.selectedIndex < Len(visibleTasks(browser))

(***************************************************************************)
(* ConfigList.tsx: the configuration screen.  config is what configManager *)
(* has stored; the component keeps its own copy in configScreen.config.    *)
(***************************************************************************)
configOptions ==
    <<[key |-> "autoSelectClosest", type |-> "boolean", options |-> <<>>],
      [key |-> "enableDefaultJSManager", type |-> "boolean", options |-> <<>>],
      [key |-> "defaultJSManager", type |-> "select",
       options |-> <<"npm", "yarn", "pnpm", "bun">>]>>

\* Array.prototype.indexOf, -1 when the value is not an element
indexOf(options, value) ==
    IF \E k \in 1..Len(options) : options[k] = value
    THEN (CHOOSE k \in 1..Len(options) : options[k] = value) - 1
    ELSE -1

\* the component as first rendered; lastKey and atEntry are history: the
\* latest key handled, and the value of the option under the cursor when
\* edit mode was last entered
ConfigList(stored) ==
    [config |-> stored, selectedIndex |-> 0, isEditing |-> FALSE,
     showHelp |-> FALSE, mounted |-> TRUE, lastKey |-> "none",
     atEntry |-> "none"]

\* configManager.set({[key]: value}) together with setConfig(newConfig)
SetOption(c, stored, key, value) ==
    [state |-> [c EXCEPT !.config = [c.config EXCEPT ![key] = value]],
     stored |-> [stored EXCEPT ![key] = value]]

Unchanged(c, stored) == [state |-> c, stored |-> stored]

\* the select option moved to the value at newIndex
MoveValue(c, stored, option, newIndex) ==
    SetOption(c, stored, option.key, option.options[newIndex + 1])

\* the useInput handler of ConfigList
configInput(c, stored, key) ==
    LET option == configOptions[c.selectedIndex + 1]
    IN IF key = "?" THEN Unchanged([c EXCEPT !.showHelp = ~@], stored)
       ELSE IF c.showHelp THEN Unchanged([c EXCEPT !.showHelp = FALSE], stored)
       ELSE IF ~c.isEditing THEN
           CASE key = "escape" \/ key = "q" ->
                    Unchanged([c EXCEPT !.mounted = FALSE], stored)
             [] key = "upArrow" \/ key = "k" ->
                    Unchanged([c EXCEPT !.selectedIndex =
                                   IF @ - 1 > 0 THEN @ - 1 ELSE 0], stored)
             [] key = "downArrow" \/ key = "j" ->
                    Unchanged([c EXCEPT !.selectedIndex =
                                   Min(Len(configOptions) - 1, @ + 1)], stored)
             [] key = "return" \/ key = "space" ->
                    IF option.type = "boolean"
                    THEN SetOption(c, stored, option.key, ~c.config[option.key])
                    ELSE Unchanged([c EXCEPT !.isEditing = TRUE,
                                             !.atEntry = c.config[option.key]],
                                   stored)
             [] key = "r" ->
                    [state |-> [c EXCEPT !.config = DefaultConfig],
                     stored |-> DefaultConfig]
             [] OTHER -> Unchanged(c, stored)
       ELSE
           LET currentIndex == indexOf(option.options, c.config[option.key])
           IN CASE key = "escape" ->
                       Unchanged([c EXCEPT !.isEditing = FALSE], stored)
                [] option.type = "select" /\ (key = "upArrow" \/ key = "k") ->
                       MoveValue(c, stored, option,
                                 IF currentIndex - 1 > 0 THEN currentIndex - 1
                                 ELSE 0)
                [] option.type = "select" /\ (key = "downArrow" \/ key = "j") ->
                       MoveValue(c, stored, option,
                                 Min(Len(option.options) - 1, currentIndex + 1))
                [] option.type = "select" /\ key = "return" ->
                       Unchanged([c EXCEPT !.isEditing = FALSE], stored)
                [] OTHER -> Unchanged(c, stored)

ConfigKeys == {"?", "escape", "q", "upArrow", "downArrow", "k", "j",
               "return", "space", "r"}

InitConfig ==
    /\ config \in [defaultJSManager : {"npm", "yarn", "pnpm", "bun", "deno"},
                   enableDefaultJSManager : BOOLEAN,
                   autoSelectClosest : BOOLEAN]
    /\ configScreen = ConfigList(config)
    /\ workspaceDir = [isNull |-> TRUE]
    /\ projectsRender = [isNull |-> TRUE]
    /\ fs = {}
    /\ cwd = Root
    /\ managers = <<>>
    /\ pc = "setup"
    /\ NoResolve
    /\ NoCli
    /\ NoListing
    /\ NoMemo
    /\ NoUnique

\* the user presses a key on the configuration screen
ConfigKey ==
    \E key \in ConfigKeys :
        /\ configScreen.mounted
        /\ LET handled == configInput(configScreen, config, key)
           IN /\ configScreen' = [handled.state EXCEPT !.lastKey = key]
              /\ config' = handled.stored
        /\ UNCHANGED <<fs, cwd, managers, pc, workspaceDir, projectsRender>>
        /\ UNCHANGED <<resolveVars, cliVars, listVars, memoVars, uniqueVars>>

NextConfig == ConfigKey

SpecConfig == InitConfig /\ [][NextConfig]_vars

\* C26: ESC in edit mode cancels the edit: when it ends an edit of the
\* select option, the value shown and the value stored are the value the
\* option had when edit mode was entered, whatever up/down keys came between.
C26_EscapeCancelsEdit ==
    [][(/\ configScreen.isEditing
        /\ ~configScreen.showHelp
        /\ configScreen'.lastKey = "escape")
           => /\ configScreen'.config.defaultJSManager = configScreen.atEntry
              /\ config'.defaultJSManager = configScreen.atEntry]_vars

(***************************************************************************)
(* workspace-detector.ts: detectWorkspace over what the directory holds.   *)
(* workspaceDir says how package.json reads, which lockfiles exist, how    *)
(* pnpm-workspace.yaml reads, what the package manager's listing command   *)
(* answers and whether a member package lies under a workspace pattern.    *)
(***************************************************************************)
RootProject == [name |-> "root", isRoot |-> TRUE]

MemberProject == [name |-> "member", isRoot |-> FALSE]

Listed(projects) == [threw |-> FALSE, value |-> projects]

ListingThrew == [threw |-> TRUE, value |-> <<>>]

detectPackageManager(d) ==
    IF "pnpm-lock.yaml" \in d.lockfiles THEN "pnpm"
    ELSE IF "yarn.lock" \in d.lockfiles THEN "yarn"
    ELSE IF "package-lock.json" \in d.lockfiles THEN "npm"
    ELSE "null"

\* parseJSON(join(dir, "package.json")): it throws on a missing or malformed
\* file; a file that parses has a name and may declare workspaces
parseRootPackage(d) ==
    [threw |-> d.packageJson \in {"missing", "malformed"},
     workspaces |-> d.packageJson = "workspaces"]

checkIsWorkspace(d, packageManager) ==
    IF packageManager = "pnpm" THEN d.pnpmWorkspace # "missing"
    ELSE /\ ~parseRootPackage(d).threw
         /\ parseRootPackage(d).workspaces

\* what the listing command prints, as projects
CommandOutput(d) ==
    CASE d.command = "all" -> <<RootProject, MemberProject>>
      [] d.command = "members" -> <<MemberProject>>
      [] OTHER -> <<>>

listProjectsUsingCommand(d, packageManager) ==
    IF d.command = "fails" THEN ListingThrew
    ELSE LET projects == CommandOutput(d)
             hasRoot == \E k \in 1..Len(projects) : projects[k].isRoot
         IN IF hasRoot THEN Listed(projects)
            ELSE IF parseRootPackage(d).threw THEN ListingThrew
            ELSE Listed(<<RootProject>> \o projects)

listProjectsManually(d, packageManager) ==
    IF parseRootPackage(d).threw THEN ListingThrew
    ELSE LET patterns ==
                 IF packageManager = "pnpm" THEN d.pnpmWorkspace = "valid"
                 ELSE parseRootPackage(d).workspaces
         IN Listed(<<RootProject>>
                       \o (IF patterns /\ d.hasMember THEN <<MemberProject>>
                           ELSE <<>>))

listWorkspaceProjects(d, packageManager) ==
    LET byCommand == listProjectsUsingCommand(d, packageManager)
    IN IF ~byCommand.threw /\ Len(byCommand.value) > 0 THEN byCommand
       ELSE listProjectsManually(d, packageManager)

WorkspaceInfo(isWorkspace, packageManager, projects) ==
    [isWorkspace |-> isWorkspace, packageManager |-> packageManager,
     projects |-> projects]

detectWorkspaceAt(d) ==
    LET packageManager == detectPackageManager(d)
    IN IF d.packageJson = "missing"
       THEN Listed(WorkspaceInfo(FALSE, "null", <<>>))
       ELSE IF packageManager = "null"
       THEN Listed(WorkspaceInfo(FALSE, "null", <<>>))
       ELSE IF ~checkIsWorkspace(d, packageManager)
       THEN Listed(WorkspaceInfo(FALSE, packageManager, <<>>))
       ELSE LET projects == listWorkspaceProjects(d, packageManager)
            IN [threw |-> projects.threw,
                value |-> WorkspaceInfo(TRUE, packageManager, projects.value)]

WorkspaceDirs ==
    [packageJson : {"missing", "malformed", "plain", "workspaces"},
     lockfiles : SUBSET {"pnpm-lock.yaml", "yarn.lock", "package-lock.json"},
     pnpmWorkspace : {"missing", "malformed", "valid"},
     command : {"fails", "nothing", "members", "all"},
     hasMember : BOOLEAN]

InitWorkspace ==
    /\ workspaceDir \in WorkspaceDirs
    /\ ret = [op |-> "none", threw |-> FALSE,
              value |-> WorkspaceInfo(FALSE, "null", <<>>)]
    /\ managerList = <<>>
    /\ fuseScore = <<>>
    /\ configScreen = [isNull |-> TRUE]
    /\ projectsRender = [isNull |-> TRUE]
    /\ fs = {}
    /\ cwd = Root
    /\ config = DefaultConfig
    /\ managers = <<>>
    /\ pc = "setup"
    /\ NoCli
    /\ NoListing
    /\ NoMemo
    /\ NoUnique

\* await detectWorkspace(dir)
CallDetectWorkspace ==
    /\ ret.op = "none"
    /\ ret' = [op |-> "detectWorkspace",
               threw |-> detectWorkspaceAt(workspaceDir).threw,
               value |-> detectWorkspaceAt(workspaceDir).value]
    /\ UNCHANGED <<managerList, fuseScore, screenVars>>
    /\ UNCHANGED <<discoveryVars, cliVars, listVars, memoVars, uniqueVars>>

NextWorkspace == CallDetectWorkspace

SpecWorkspace == InitWorkspace /\ [][NextWorkspace]_vars

\* C27: detectWorkspace never throws, whatever the directory holds and
\* whatever the listing command answers; with a malformed package.json it
\* reports isWorkspace = false; it reports projects only with isWorkspace =
\* true.
C27_DetectWorkspaceNeverThrows ==
    ret.op = "detectWorkspace" =>
        /\ ~ret.threw
        /\ workspaceDir.packageJson = "malformed" => ~ret.value.isWorkspace
        /\ ret.value.projects # <<>> => ret.value.isWorkspace

(***************************************************************************)
(* ProjectsList and renderProjectsList: the project browser, the callback  *)
(* onSelect it defers with setImmediate, and the promise that the          *)
(* waitUntilExit notification resolves with selectedProject                *)
(***************************************************************************)
MaxProjects == 2

filteredProjects(b) ==
    LET NameIncludesFilter(project) ==
            includes(toLowerCase(project.name), toLowerCase(b.filter))
    IN IF b.filter # <<>> THEN SelectSeq(b.projects, NameIncludesFilter)
       ELSE b.projects

visibleProjects(b) ==
    slice(filteredProjects(b), b.currentPage * ITEMS_PER_PAGE,
          Min(b.currentPage * ITEMS_PER_PAGE + ITEMS_PER_PAGE,
              Len(filteredProjects(b))))

\* the component as first rendered
ProjectsList(projects) ==
    [projects |-> projects, selectedIndex |-> 0, filter |-> <<>>,
     isFiltering |-> FALSE, showHelp |-> FALSE, currentPage |-> 0]

\* the effect on [filter], then the effect on
\* [selectedIndex, visibleProjects.length]
ProjectsEffects(b, before) ==
    LET reset == IF b.filter # before.filter
                 THEN [b EXCEPT !.currentPage = 0, !.selectedIndex = 0]
                 ELSE b
    IN IF reset.selectedIndex >= Len(visibleProjects(reset))
          /\ Len(visibleProjects(reset)) > 0
       THEN [reset EXCEPT !.selectedIndex = Len(visibleProjects(reset)) - 1]
       ELSE reset

ProjectsHandled(b, before, effect, selected) ==
    [state |-> ProjectsEffects(b, before), effect |-> effect,
     selected |-> selected]

\* the useInput handler of ProjectsList
projectsInput(b, key) ==
    LET pages == (Len(filteredProjects(b)) + ITEMS_PER_PAGE - 1)
                     \div ITEMS_PER_PAGE
        Stay(next) == ProjectsHandled(next, b, "none", Null)
    IN IF key = "?" THEN Stay([b EXCEPT !.showHelp = ~@])
       ELSE IF b.showHelp THEN Stay([b EXCEPT !.showHelp = FALSE])
       ELSE IF b.isFiltering THEN
           CASE key = "escape" ->
                    Stay([b EXCEPT !.isFiltering = FALSE, !.filter = <<>>])
             [] key = "return" -> Stay([b EXCEPT !.isFiltering = FALSE])
             [] key = "backspace" ->
                    Stay([b EXCEPT !.filter =
                              SubSeq(@, 1, IF Len(@) = 0 THEN 0 ELSE Len(@) - 1)])
             [] key \notin SpecialKeys -> Stay([b EXCEPT !.filter = Append(@, key)])
             [] OTHER -> Stay(b)
       ELSE
           CASE key = "escape" \/ key = "q" ->
                    ProjectsHandled(b, b, "exit", Null)
             [] key = "upArrow" \/ key = "k" ->
                    Stay(IF b.selectedIndex > 0
                         THEN [b EXCEPT !.selectedIndex = @ - 1]
                         ELSE IF b.currentPage > 0
                         THEN [b EXCEPT !.currentPage = @ - 1,
                                        !.selectedIndex = ITEMS_PER_PAGE - 1]
                         ELSE b)
             [] key = "downArrow" \/ key = "j" ->
                    Stay(IF b.selectedIndex < Len(visibleProjects(b)) - 1
                         THEN [b EXCEPT !.selectedIndex = @ + 1]
                         ELSE IF b.currentPage < pages - 1
                         THEN [b EXCEPT !.currentPage = @ + 1,
                                        !.selectedIndex = 0]
                         ELSE b)
             [] key = "leftArrow" \/ key = "h" ->
                    Stay(IF b.currentPage > 0
                         THEN [b EXCEPT !.currentPage = @ - 1,
                                        !.selectedIndex = 0]
                         ELSE b)
             [] key = "rightArrow" \/ key = "l" ->
                    Stay(IF b.currentPage < pages - 1
                         THEN [b EXCEPT !.currentPage = @ + 1,
                                        !.selectedIndex = 0]
                         ELSE b)
             [] key = "g" ->
                    Stay([b EXCEPT !.currentPage = 0, !.selectedIndex = 0])
             [] key = "G" ->
                    Stay([b EXCEPT
                              !.currentPage = pages - 1,
                              !.selectedIndex =
                                  Min(ITEMS_PER_PAGE - 1,
                                      Len(filteredProjects(b))
                                          - b.currentPage * ITEMS_PER_PAGE - 1)])
             [] key = "return" ->
                    IF b.selectedIndex >= 0
                       /\ b.selectedIndex < Len(visibleProjects(b))
                    THEN ProjectsHandled(b, b, "select",
                                         visibleProjects(b)[b.selectedIndex + 1])
                    ELSE Stay(b)
             [] key = "/" -> Stay([b EXCEPT !.isFiltering = TRUE])
             [] key = "c" /\ b.filter # <<>> -> Stay([b EXCEPT !.filter = <<>>])
             [] OTHER -> Stay(b)

WorkspaceProject(name) == [name |-> name]

Unresolved == [state |-> "pending", value |-> Null]

\* renderProjectsList(projects) up to the first key: chosen is history, the
\* project Enter was pressed on
renderProjectsList(projects) ==
    [component |-> ProjectsList(projects), mounted |-> TRUE, pending |-> {},
     selectedProject |-> Null, promise |-> Unresolved, chosen |-> Null]

InitProjects ==
    /\ \E n \in 1..MaxProjects :
           projectsRender =
               renderProjectsList([i \in 1..n |->
                   WorkspaceProject(IF i = 1 THEN <<"u">> ELSE <<"a", "u">>)])
    /\ configScreen = [isNull |-> TRUE]
    /\ workspaceDir = [isNull |-> TRUE]
    /\ fs = {}
    /\ cwd = Root
    /\ config = DefaultConfig
    /\ managers = <<>>
    /\ pc = "setup"
    /\ NoResolve
    /\ NoCli
    /\ NoListing
    /\ NoMemo
    /\ NoUnique

\* the user presses a key in the project browser; exit() unmounts the app
\* and makes waitUntilExit notify, Enter also defers onSelect(selected)
ProjectsKey ==
    \E key \in BrowserKeys :
        /\ projectsRender.mounted
        /\ projectsRender.component.isFiltering
             /\ ~projectsRender.component.showHelp
             /\ key \notin SpecialKeys \cup {"?"}
               => /\ key \in TypedKeys
                  /\ Len(projectsRender.component.filter) < MaxFilter
        /\ LET handled == projectsInput(projectsRender.component, key)
           IN projectsRender' =
                  CASE handled.effect = "select" ->
                           [projectsRender EXCEPT
                                !.mounted = FALSE,
                                !.pending = {"onSelect", "waitUntilExit"},
                                !.chosen = handled.selected]
                    [] handled.effect = "exit" ->
                           [projectsRender EXCEPT
                                !.mounted = FALSE,
                                !.pending = {"waitUntilExit"}]
                    [] OTHER ->
                           [projectsRender EXCEPT !.component = handled.state]
        /\ UNCHANGED <<configScreen, workspaceDir>>
        /\ UNCHANGED <<discoveryVars, resolveVars, cliVars, listVars, memoVars,
                       uniqueVars>>

\* the setImmediate callback runs: onSelect(selected)
RunOnSelect ==
    /\ "onSelect" \in projectsRender.pending
    /\ projectsRender' =
           [projectsRender EXCEPT !.pending = @ \ {"onSelect"},
                                  !.selectedProject = projectsRender.chosen]
    /\ UNCHANGED <<configScreen, workspaceDir>>
    /\ UNCHANGED <<discoveryVars, resolveVars, cliVars, listVars, memoVars,
                   uniqueVars>>

\* the then callback of waitUntilExit runs: resolve(selectedProject)
RunWaitUntilExit ==
    /\ "waitUntilExit" \in projectsRender.pending
    /\ projectsRender' =
           [projectsRender EXCEPT
                !.pending = @ \ {"waitUntilExit"},
                !.promise = [state |-> "resolved",
                             value |-> projectsRender.selectedProject]]
    /\ UNCHANGED <<configScreen, workspaceDir>>
    /\ UNCHANGED <<discoveryVars, resolveVars, cliVars, listVars, memoVars,
                   uniqueVars>>

NextProjects ==
    \/ ProjectsKey
    \/ RunOnSelect
    \/ RunWaitUntilExit

SpecProjects == InitProjects /\ [][NextProjects]_vars

\* C29: renderProjectsList resolves with the project the user selected: once
\* Enter was pressed on a visible project the promise resolves to that
\* project, in either order of the waitUntilExit notification and the
\* deferred onSelect, and to null only when the user left without selecting.
C29_ResolvesWithSelection ==
    projectsRender.promise.state = "resolved" =>
        projectsRender.promise.value = projectsRender.chosen
====
